---- MODULE Spec2Model ----
(***************************************************************************)
(* agentd: the agent execution subsystem.                                  *)
(*                                                                         *)
(* The daemon is one Node.js process: code between two `await`s runs       *)
(* atomically, so every action below is one such segment (a handler up to  *)
(* its first suspension point, or the continuation that runs when a        *)
(* provider call, a tool call or a retry delay settles).                   *)
(***************************************************************************)
EXTENDS Integers, Sequences, FiniteSets, TLC

(***************************************************************************)
(* Program constants.                                                      *)
(***************************************************************************)
MAX_RETRIES == 3
MAX_ITERATIONS == 20
DEFAULT_RETRY_DELAY_MS == 60000
SERVER_ERROR_DELAY_MS == 5000

(***************************************************************************)
(* Bounds of the explored environment.                                     *)
(***************************************************************************)
\* Two environments are explored. In the first (Spec) runs overlap and each
\* is short; in the second (SpecRun) one run is followed to the iteration
\* ceiling.
\* runs created in one behaviour (run ids are 1..MaxRuns, all distinct)
MaxRuns == 2
DeepRuns == 1
\* provider responses that keep a loop going, over all runs together
ConcTurns == 2
MaxTurns == 20
\* abnormal inputs (provider errors, failing tools, extra tool requests,
\* unusual answers, agent removals), over all runs together ...
ConcFaults == 2
MaxFaults == 4
\* ... which only occur before the provider has given this many responses
\* that keep a loop going
FaultTurns == 2
\* tool requests in one provider response
MaxBlocks == 2
\* registerServer and shutdown invocations in one behaviour
MaxOps == 2
\* tool client adapters created in one behaviour
MaxAdapters == 2
\* the last instant the clock reaches
MaxClock == 5
\* cron tasks running at the same time
MaxTimers == 3
\* completeRun and failRun calls for one run id
MaxWrites == 3
\* longest trigger list a pure function is applied to
MaxTriggers == 3
\* characters in a run id, runs stored at a time, events stored at a time
IdLen == 2
MaxStored == 2
MaxEvents == 3
\* characters in a tool name
NameLen == 4

AgentNames == {"a1"}
\* the names the agents table and the scheduler are followed for
SchedAgents == {"a1", "a2"}
NoRow == [absent |-> TRUE]
NoAgent == [absent |-> TRUE]

\* model identifiers as <<prefix, rest>>: startsWith(prefix) is a test on the
\* first component, slice(prefix.length) is the second one
ModelIds ==
  { <<"claude-", "sonnet-4">>, <<"ollama/", "llama3">>, <<"ollama/", "">>,
    <<"gpt-", "4o">> }

\* triggers: "manual", or "cron:" followed by an expression, as
\* <<prefix, rest>> like the model identifiers
Manual == <<"manual">>
CronE1 == <<"cron:", "e1">>
CronE2 == <<"cron:", "e2">>

TriggerLists == { <<Manual>>, <<Manual, CronE1>> }

\* tool references of an agent: a server name selects all its tools
ShellTools == << <<"shell">> >>

\* HTTP statuses a failing provider request carries (0: an error object
\* without a status field, e.g. a network failure)
ErrorStatuses == {429, 503, 400, 0}

VARIABLES
  agents,      \* agents table: name -> row or NoAgent
  runs,        \* runs table: run id -> row or NoRow
  events,      \* events table, per run id, in insertion order
  nextId,      \* number of run ids handed out by createRun
  tasks,       \* runAgent invocations: run id -> local state
  scheduled,   \* scheduler's map `scheduled`: agent -> its cron tasks (ids)
  timers,      \* the cron tasks that are running: id -> task or NoTimer
  cronCalls,   \* timer callbacks in flight
  registry,    \* tool registry (`servers`): server entries in insertion order
  adapters,    \* tool client adapters created so far: id -> state
  regOps,      \* registerServer / disconnectAll invocations: id -> local state
  lastCall,    \* what the latest registry callTool did (observer)
  build,       \* which build of the registry runs: "src" or "dist"
  apiKey,      \* whether loadApiKey() finds a key
  daemonUp,    \* the process is alive and serving
  responses,   \* answers of POST /agents/:name/run, in order
  termWrites,  \* per run id: completeRun + failRun calls (observer)
  writeAt,     \* per run id: the events it had at its latest terminal write,
               \* -1 before the first (observer)
  provCalls,   \* per run id: provider requests sent (observer)
  envLog,      \* per run id: the provider's answers, 200 or the error status (observer)
  toolLog,     \* per run id: how each callTool settled (observer)
  turnsLeft,   \* environment budget, see MaxTurns
  faultsLeft,  \* environment budget, see MaxFaults
  cap,         \* the environment's limits, fixed by the initial state
  clock,       \* the wall clock, in whole instants
  store,       \* traces.ts tables with run ids as strings: runs, events
  lastGet,     \* the latest getRun: its argument and what it returned
  logCalls,    \* per stored run id: the logEvent calls made for it (observer)
  naming       \* a tool name on its way to a provider and back

vars ==
  << agents, runs, events, nextId, tasks, scheduled, timers, cronCalls, registry,
     apiKey, daemonUp, responses, termWrites, writeAt, provCalls, envLog, toolLog,
     turnsLeft, faultsLeft, cap, adapters, regOps, lastCall, build, clock,
     store, lastGet, logCalls, naming >>

storeVars == << store, lastGet, logCalls >>

regVars == << adapters, regOps, lastCall, build, storeVars, naming >>

RunIds == 1..MaxRuns

HasRow(r) == runs[r] # NoRow

(***************************************************************************)
(* Pure helpers of the runner.                                             *)
(***************************************************************************)
\* runner.js parseModelProvider: the provider variant, or a thrown error
parseModelProvider(model) ==
  IF model[1] = "claude-" THEN [type |-> "anthropic", threw |-> FALSE]
  ELSE IF model[1] = "ollama/"
       THEN IF model[2] = ""
            THEN [type |-> "none", threw |-> TRUE]
            ELSE [type |-> "ollama", threw |-> FALSE]
       ELSE [type |-> "none", threw |-> TRUE]

\* agents.ts MODEL_PATTERN = /^(claude-|ollama\/)/
MODEL_PATTERN(model) == model[1] \in {"claude-", "ollama/"}

\* variant: every failure that carries a status is taken for transient
isTransientErrorAnyStatus(status) ==
  IF status = 429
  THEN [transient |-> TRUE, retryAfterMs |-> DEFAULT_RETRY_DELAY_MS]
  ELSE IF status # 0
       THEN [transient |-> TRUE, retryAfterMs |-> SERVER_ERROR_DELAY_MS]
       ELSE [transient |-> FALSE, retryAfterMs |-> 0]

\* runner.js isTransientError
isTransientError(status) ==
  IF status = 429
  THEN [transient |-> TRUE, retryAfterMs |-> DEFAULT_RETRY_DELAY_MS]
  ELSE IF status \in {500, 502, 503, 529}
       THEN [transient |-> TRUE, retryAfterMs |-> SERVER_ERROR_DELAY_MS]
       ELSE [transient |-> FALSE, retryAfterMs |-> 0]

\* output texts are sequences of parts; "" is the empty sequence
EmptyText == << >>
TRUNCATED == "\\n[warning: response truncated due to max_tokens]"
SENTINEL == "[warning: agent reached maximum iteration limit (20) without producing a final response]"

(***************************************************************************)
(* Events.                                                                 *)
(***************************************************************************)
Ev(type, isErr, attempt, info) ==
  [type |-> type, is_error |-> isErr, attempt |-> attempt, info |-> info]

(***************************************************************************)
(* A run context: everything one segment of runAgent reads and writes for  *)
(* its own run id. Store operations act on it.                             *)
(***************************************************************************)
Ctx(r) ==
  [t |-> tasks[r], row |-> runs[r], ev |-> events[r], tw |-> termWrites[r],
   wa |-> writeAt[r],
   pc |-> provCalls[r], threw |-> "none"]

\* traces.ts logEvent: INSERT INTO events; with foreign keys on, the insert
\* fails when the run row is gone (removed with its agent)
logEvent(c, e) ==
  IF c.row = NoRow
  THEN [c EXCEPT !.threw = "FOREIGN KEY constraint failed"]
  ELSE [c EXCEPT !.ev = Append(@, e)]

\* Instants and durations are not followed in the rows: a written timestamp
\* (new Date().toISOString()) is the token Now, a duration is the literal 0
\* of the early exits or the time measured since `start`
Now == "now"
ZeroMs == "0"
ElapsedMs == "Date.now() - start"

\* the arguments of failRun
FailParams(msg, durationMs) == [error |-> msg, durationMs |-> durationMs]

\* variant: failRun also stores what the run had counted when it failed
failRunWithTotals(c, params) ==
  [c EXCEPT !.tw = @ + 1, !.wa = Len(c.ev),
            !.row = IF @ = NoRow THEN @
                    ELSE [@ EXCEPT !.status = "error",
                                   !.completed_at = <<Now>>,
                                   !.duration_ms = <<params.durationMs>>,
                                   !.error = params.error,
                                   !.total_input_tokens = c.t.totalInputTokens,
                                   !.total_output_tokens = c.t.totalOutputTokens,
                                   !.tool_calls = c.t.toolCalls]]

\* traces.ts failRun: UPDATE runs SET status = 'error', completed_at,
\* duration_ms, error WHERE id = @id
failRun(c, params) ==
  [c EXCEPT !.tw = @ + 1, !.wa = Len(c.ev),
            !.row = IF @ = NoRow THEN @
                    ELSE [@ EXCEPT !.status = "error",
                                   !.completed_at = <<Now>>,
                                   !.duration_ms = <<params.durationMs>>,
                                   !.error = params.error]]

\* traces.ts MODEL_PRICING: the priced models, with the price of a million
\* input and of a million output tokens
PricedModels == { <<"claude-", "sonnet-4-5-20250514">>,
                  <<"claude-", "sonnet-4-20250514">> }
InputPrice == 3
OutputPrice == 15

\* variant: a model without a price is charged at the listed price
costForModelCharged(model, inputTokens, outputTokens) ==
  inputTokens * InputPrice + outputTokens * OutputPrice

\* traces.ts costForModel, in millionths of a dollar: 0 without a price
costForModel(model, inputTokens, outputTokens) ==
  IF model \notin PricedModels THEN 0
  ELSE inputTokens * InputPrice + outputTokens * OutputPrice

\* runAgent after the loop: costUsd is costForModel for Provider A, 0 for
\* Provider B
costUsd(t) ==
  IF t.provider = "anthropic"
  THEN costForModel(t.model, t.totalInputTokens, t.totalOutputTokens)
  ELSE 0

\* runAgent after the loop: what it passes to completeRun
RunResult(c, output) ==
  [output |-> output, totalInputTokens |-> c.t.totalInputTokens,
   totalOutputTokens |-> c.t.totalOutputTokens, costUsd |-> costUsd(c.t),
   toolCalls |-> c.t.toolCalls, durationMs |-> ElapsedMs]

\* traces.ts completeRun: UPDATE runs SET status = 'completed', completed_at,
\* duration_ms, total_input_tokens, total_output_tokens, cost_usd,
\* tool_calls, output WHERE id = @id
completeRun(c, params) ==
  [c EXCEPT !.tw = @ + 1, !.wa = Len(c.ev),
            !.row = IF @ = NoRow THEN @
                    ELSE [@ EXCEPT !.status = "completed",
                                   !.completed_at = <<Now>>,
                                   !.duration_ms = <<params.durationMs>>,
                                   !.total_input_tokens = params.totalInputTokens,
                                   !.total_output_tokens = params.totalOutputTokens,
                                   !.cost_usd = params.costUsd,
                                   !.tool_calls = params.toolCalls,
                                   !.output = params.output]]

\* traces.ts createRun: the row of a new run
NewRow(a) ==
  [agent_name |-> a, status |-> "running", output |-> EmptyText,
   error |-> "", tool_calls |-> 0, total_input_tokens |-> 0,
   total_output_tokens |-> 0, cost_usd |-> 0, completed_at |-> << >>,
   duration_ms |-> << >>]

(***************************************************************************)
(* Tool registry and tool client adapters.                                 *)
(***************************************************************************)
\* Names are sequences of tokens; the separator "." is a token of its own.
\* String.indexOf: 0-based position of the first occurrence, -1 if none
indexOf(s, tok) ==
  IF \E k \in 1..Len(s) : s[k] = tok
  THEN (CHOOSE k \in 1..Len(s) : s[k] = tok /\ \A j \in 1..(k - 1) : s[j] # tok) - 1
  ELSE -1

\* String.slice(from, to), 0-based, `to` exclusive
slice(s, from, to) == SubSeq(s, from + 1, to)

\* `client: null` of an in-process entry
NoClient == 0
NoEntry == [absent |-> TRUE]
AdapterIds == 1..MaxAdapters
OpIds == 1..MaxOps

\* registry.ts ServerEntry, with the key it is stored under
ServerEntry(name, client, tools, local, source) ==
  [name |-> name, client |-> client, tools |-> tools, localHandlers |-> local,
   source |-> source]

\* [...servers.keys()]
serversKeys(reg) == [k \in 1..Len(reg) |-> reg[k].name]

\* servers.get(name)
serversGet(reg, name) ==
  IF \E k \in 1..Len(reg) : reg[k].name = name
  THEN reg[CHOOSE k \in 1..Len(reg) :
             reg[k].name = name /\ \A j \in 1..(k - 1) : reg[j].name # name]
  ELSE NoEntry

\* variant: a store that adds the entry without looking for the key
serversSetAppends(reg, e) == Append(reg, e)

\* servers.set(name, entry): replaces the value of an existing key in place,
\* appends a new key
serversSet(reg, e) ==
  IF serversGet(reg, e.name) # NoEntry
  THEN [k \in 1..Len(reg) |-> IF reg[k].name = e.name THEN e ELSE reg[k]]
  ELSE Append(reg, e)

\* registry.ts listTools: the namespaced names of all entries, in order
RECURSIVE listTools(_)
listTools(reg) ==
  IF reg = << >> THEN {}
  ELSE {Head(reg).name \o <<".">> \o t : t \in Head(reg).tools}
         \cup listTools(Tail(reg))

\* registry.ts getServerForTool: the entry and the bare tool name, or the
\* error it throws
getServerForTool(reg, toolName) ==
  LET dotIndex == indexOf(toolName, ".")
      serverName == slice(toolName, 0, dotIndex)
      originalName == slice(toolName, dotIndex + 1, Len(toolName))
      server == serversGet(reg, serverName)
  IN IF dotIndex = -1
     THEN [error |-> "invalid-name", available |-> << >>, server |-> NoEntry,
           originalName |-> << >>]
     ELSE IF server = NoEntry
          THEN [error |-> "server-not-found",
                available |-> IF serversKeys(reg) = << >> THEN << <<"none">> >>
                              ELSE serversKeys(reg),
                server |-> NoEntry, originalName |-> originalName]
          ELSE IF originalName \notin server.tools
               THEN [error |-> "tool-not-found",
                     available |-> << >>, server |-> NoEntry,
                     originalName |-> originalName]
               ELSE [error |-> "none", available |-> << >>, server |-> server,
                     originalName |-> originalName]

NoTarget == [kind |-> "none", id |-> NoClient, tool |-> << >>]

\* variant: an unresolved tool is handed to the first entry
callToolFallsBack(reg, toolName) ==
  LET r == getServerForTool(reg, toolName) IN
  IF r.error = "tool-not-found"
  THEN [tool |-> toolName, error |-> r.error, available |-> r.available,
        target |-> [kind |-> "handler", id |-> NoClient, tool |-> r.originalName]]
  ELSE IF r.error # "none"
       THEN [tool |-> toolName, error |-> r.error, available |-> r.available,
             target |-> NoTarget]
       ELSE [tool |-> toolName, error |-> "none", available |-> << >>,
             target |-> IF r.server.localHandlers
                        THEN [kind |-> "handler", id |-> NoClient,
                              tool |-> r.originalName]
                        ELSE [kind |-> "adapter", id |-> r.server.client,
                              tool |-> r.originalName]]

\* registry.ts callTool: where the call is dispatched to, or the error
callTool(reg, toolName) ==
  LET r == getServerForTool(reg, toolName) IN
  IF r.error # "none"
  THEN [tool |-> toolName, error |-> r.error, available |-> r.available,
        target |-> NoTarget]
  ELSE [tool |-> toolName, error |-> "none", available |-> << >>,
        target |-> IF r.server.localHandlers
                   THEN [kind |-> "handler", id |-> NoClient,
                         tool |-> r.originalName]
                   ELSE [kind |-> "adapter", id |-> r.server.client,
                         tool |-> r.originalName]]

NoCall == [tool |-> << >>, error |-> "none", available |-> << >>, target |-> NoTarget]

(***************************************************************************)
(* Tool names in provider form. A name is a sequence of characters.        *)
(***************************************************************************)
NameChars == {"a", "_", "."}
ToolNames == UNION {[1..n -> NameChars] : n \in 1..NameLen}

\* name.replaceAll(".", "__")
RECURSIVE dotsToUnderscores(_)
dotsToUnderscores(name) ==
  IF name = << >> THEN << >>
  ELSE (IF Head(name) = "." THEN <<"_", "_">> ELSE <<Head(name)>>)
         \o dotsToUnderscores(Tail(name))

\* name.replaceAll("__", "."): the occurrences are taken from the left and
\* do not overlap
RECURSIVE underscoresToDots(_)
underscoresToDots(name) ==
  IF name = << >> THEN << >>
  ELSE IF Len(name) >= 2 /\ name[1] = "_" /\ name[2] = "_"
       THEN <<".">> \o underscoresToDots(SubSeq(name, 3, Len(name)))
       ELSE <<Head(name)>> \o underscoresToDots(Tail(name))

\* config.ts toAnthropicName / fromAnthropicName
toAnthropicName(name) == dotsToUnderscores(name)
fromAnthropicName(name) == underscoresToDots(name)

\* ollama.ts toOllamaToolName / fromOllamaToolName
toOllamaToolName(name) == dotsToUnderscores(name)
fromOllamaToolName(name) == underscoresToDots(name)

NoNaming == [provider |-> "none", name |-> << >>, wire |-> << >>, back |-> << >>,
             at |-> "none"]

(***************************************************************************)
(* Tool calls a provider asks for.                                         *)
(***************************************************************************)
\* A JSON text is a sequence of tokens. A value is an object with the set of
\* its <<key, value>> members, null, or a string.
Object(members) == [kind |-> "object", members |-> members]
EmptyObject == Object({})
JsonNull == [kind |-> "null"]
JsonString(text) == [kind |-> "string", text |-> text]

\* the `arguments` strings Provider B may send with a tool call
ArgStrings ==
  { <<"{", "}">>, <<"{", "k", ":", "v", "}">>, <<"null">>,
    <<"{", "k", ":">>, <<"k">>, << >> }

\* JSON.parse: the value of a JSON text, or a SyntaxError
JSONparse(text) ==
  IF text = <<"{", "}">> THEN [threw |-> FALSE, value |-> EmptyObject]
  ELSE IF Len(text) = 5 /\ text[1] = "{" /\ text[3] = ":" /\ text[5] = "}"
       THEN [threw |-> FALSE, value |-> Object({<<text[2], text[4]>>})]
       ELSE IF text = <<"null">> THEN [threw |-> FALSE, value |-> JsonNull]
            ELSE [threw |-> TRUE, value |-> JsonNull]

\* a requested tool call: its id, the tool's name in provider form,
\* Provider B's arguments string (tc.function.arguments) and Provider A's
\* input object (block.input)
ToolCall(id, name, arguments, input) ==
  [id |-> id, name |-> name, arguments |-> arguments, input |-> input]

NoToolCall == ToolCall(0, << >>, << >>, EmptyObject)

\* shell.exec as a provider names it
ShellExec == <<"shell", "_", "_", "exec">>

\* n requests for shell.exec with well-formed empty arguments, ids 1..n
PlainCalls(n) ==
  [k \in 1..n |-> ToolCall(k, ShellExec, <<"{", "}">>, EmptyObject)]

\* the name callTool is given: fromAnthropicName(block.name),
\* fromOllamaToolName(tc.function.name)
OriginalName(provider, call) ==
  IF provider = "anthropic" THEN fromAnthropicName(call.name)
  ELSE fromOllamaToolName(call.name)

\* the tools of the entries stored under `server` (t.serverName === toolSpec)
ServerTools(reg, server) ==
  UNION { {reg[k].name \o <<".">> \o t : t \in reg[k].tools} :
            k \in {j \in 1..Len(reg) : reg[j].name = server} }

\* runner.js resolveTools: a reference with a dot selects the tool of that
\* name if there is one, a reference without a dot every tool of that server
RECURSIVE resolveTools(_, _)
resolveTools(reg, tools) ==
  IF tools = << >> THEN {}
  ELSE (IF indexOf(Head(tools), ".") # -1
        THEN {n \in listTools(reg) : n = Head(tools)}
        ELSE ServerTools(reg, Head(tools)))
         \cup resolveTools(reg, Tail(tools))

\* variant: arguments that do not parse are passed on as they came
ToolArgsUnparsed(provider, call) ==
  IF provider = "anthropic" THEN call.input
  ELSE IF JSONparse(call.arguments).threw THEN JsonString(call.arguments)
       ELSE JSONparse(call.arguments).value

\* the arguments callTool gets: block.input in runAnthropicLoop; in
\* runOllamaLoop `try { args = JSON.parse(tc.function.arguments) }
\* catch { args = {} }`
ToolArgs(provider, call) ==
  IF provider = "anthropic" THEN call.input
  ELSE IF JSONparse(call.arguments).threw THEN EmptyObject
       ELSE JSONparse(call.arguments).value

(***************************************************************************)
(* runAgent.                                                               *)
(***************************************************************************)
NoTask ==
  [pc |-> "none", caller |-> "none", provider |-> "none", i |-> 0,
   attempt |-> 0, blocks |-> 0, toolCalls |-> 0, output |-> EmptyText,
   results |-> << >>, msgs |-> << >>, agent |-> "", triggers |-> << >>,
   context |-> << >>, model |-> << >>, totalInputTokens |-> 0,
   totalOutputTokens |-> 0, calls |-> << >>, call |-> NoToolCall,
   args |-> EmptyObject, resolved |-> {}, target |-> NoCall]

Settled(c, how) == [c EXCEPT !.t.pc = how]

\* runAgent's early exits: logEvent(error); failRun; throw
EarlyFail(c, msg) ==
  LET c1 == logEvent(c, Ev("error", TRUE, 0, msg)) IN
  IF c1.threw # "none" THEN Settled(c1, "rejected")
  ELSE Settled(failRun(c1, FailParams(msg, ZeroMs)), "rejected")

\* variant: the outer catch marks the run failed before it logs the error
OuterCatchWritesFirst(c, msg) ==
  LET c1 == logEvent(failRun([c EXCEPT !.threw = "none"],
                             FailParams(msg, ElapsedMs)),
                     Ev("error", TRUE, 0, msg)) IN
  Settled(c1, "rejected")

\* runAgent's outer catch: logEvent(error); failRun; throw err
OuterCatch(c, msg) ==
  LET c1 == logEvent([c EXCEPT !.threw = "none"], Ev("error", TRUE, 0, msg)) IN
  IF c1.threw # "none" THEN Settled(c1, "rejected")
  ELSE Settled(failRun(c1, FailParams(msg, ElapsedMs)), "rejected")

\* a store call inside the try block threw: the error goes to the outer catch
Thrown(c) == c.threw # "none"
Caught(c) == OuterCatch(c, c.threw)

\* variant: reaching the iteration ceiling is reported as a failure
AfterLoopCeilingFails(c) ==
  IF c.t.output = EmptyText THEN OuterCatch(c, "iteration limit")
  ELSE Settled(completeRun(c, RunResult(c, c.t.output)), "resolved")

\* variant: the return path after completeRun lands in the outer catch
AfterLoopThenFail(c) ==
  LET out == IF c.t.output = EmptyText THEN <<SENTINEL>> ELSE c.t.output IN
  Settled(failRun(completeRun(c, RunResult(c, out)),
                  FailParams("late error", ElapsedMs)), "rejected")

\* after the loop: sentinel for an empty output, completeRun, return
AfterLoop(c) ==
  LET out == IF c.t.output = EmptyText THEN <<SENTINEL>> ELSE c.t.output IN
  Settled(completeRun(c, RunResult(c, out)), "resolved")

\* the provider request of attempt `attempt` of iteration c.t.i
SendRequest(c, attempt) ==
  [c EXCEPT !.t.pc = "awaitLLM", !.t.attempt = attempt, !.pc = @ + 1]

\* top of `for (let i = 0; i < MAX_ITERATIONS; i++)` with i already set
LoopTop(c) ==
  IF c.t.i < MAX_ITERATIONS THEN SendRequest(c, 0) ELSE AfterLoop(c)

\* end of one iteration body that did not break
NextIteration(c) == LoopTop([c EXCEPT !.t.i = @ + 1, !.t.blocks = 0])

Msg(role, results) == [role |-> role, results |-> results]

\* the token counts a response reports; Provider B may report none, which
\* counts as 0
NoUsage == [tin |-> 0, tout |-> 0]
Usages == { NoUsage, [tin |-> 1, tout |-> 2], [tin |-> 2, tout |-> 1] }
OneUsage == [tin |-> 1, tout |-> 1]

\* the llm_call event of a response
LlmCall(resp) ==
  [type |-> "llm_call", is_error |-> FALSE, attempt |-> 0, info |-> resp.stop,
   input_tokens |-> resp.usage.tin, output_tokens |-> resp.usage.tout]

\* variant: the totals take the input tokens only
AddUsageInputOnly(c, usage) ==
  [c EXCEPT !.t.totalInputTokens = @ + usage.tin]

\* both loops: totalInputTokens += ..., totalOutputTokens += ...
AddUsage(c, usage) ==
  [c EXCEPT !.t.totalInputTokens = @ + usage.tin,
            !.t.totalOutputTokens = @ + usage.tout]

\* the next requested tool call of the current response (totalToolCalls++,
\* await callTool), or, after the last one, the results go back into the
\* conversation and the next turn starts
NextBlock(c) ==
  IF c.t.blocks > 0
  THEN [c EXCEPT !.t.pc = "awaitTool", !.t.toolCalls = @ + 1,
                 !.t.call = Head(c.t.calls), !.t.calls = Tail(c.t.calls),
                 !.t.args = ToolArgs(c.t.provider, Head(c.t.calls)),
                 !.t.target = callTool(registry,
                                OriginalName(c.t.provider, Head(c.t.calls)))]
  ELSE IF c.t.provider = "anthropic"
       THEN NextIteration([c EXCEPT !.t.msgs = Append(@, Msg("user", c.t.results)),
                                    !.t.results = << >>])
       ELSE NextIteration(c)

ProviderMsg(status) == "provider error " \o ToString(status)

\* variant: a transient failure is retried without being recorded
AnthropicFailedSilent(c, status) ==
  LET tr == isTransientError(status) IN
  IF ~tr.transient \/ c.t.attempt = MAX_RETRIES
  THEN OuterCatch(c, ProviderMsg(status))
  ELSE [c EXCEPT !.t.pc = "retryDelay"]

\* variant: the budget test is off by one
AnthropicFailedOneMore(c, status) ==
  LET tr == isTransientError(status) IN
  IF ~tr.transient \/ c.t.attempt > MAX_RETRIES
  THEN OuterCatch(c, ProviderMsg(status))
  ELSE LET d == logEvent(c, Ev("retry", FALSE, c.t.attempt + 1,
                                ToString(tr.retryAfterMs)))
       IN IF Thrown(d) THEN Caught(d) ELSE [d EXCEPT !.t.pc = "retryDelay"]

\* runAnthropicLoop: the catch of one failed client.messages.create
AnthropicFailed(c, status) ==
  LET tr == isTransientError(status) IN
  IF ~tr.transient \/ c.t.attempt = MAX_RETRIES
  THEN OuterCatch(c, ProviderMsg(status))
  ELSE LET d == logEvent(c, Ev("retry", FALSE, c.t.attempt + 1,
                                ToString(tr.retryAfterMs)))
       IN IF Thrown(d) THEN Caught(d) ELSE [d EXCEPT !.t.pc = "retryDelay"]

\* text of a final answer: the text blocks joined, plus the truncation warning
FinalText(hasText, truncated) ==
  (IF hasText THEN <<"text">> ELSE EmptyText)
    \o (IF truncated THEN <<TRUNCATED>> ELSE EmptyText)

\* runAnthropicLoop: one response of client.messages.create
AnthropicResponded(c, resp) ==
  LET d == logEvent(AddUsage(c, resp.usage), LlmCall(resp)) IN
  IF Thrown(d) THEN Caught(d)
  ELSE IF resp.stop \in {"end_turn", "max_tokens"}
       THEN AfterLoop([d EXCEPT !.t.output =
                         FinalText(resp.text, resp.stop = "max_tokens")])
       ELSE IF resp.stop = "tool_use"
            THEN NextBlock([d EXCEPT !.t.blocks = resp.ntools,
                                     !.t.calls = resp.calls,
                                     !.t.msgs = Append(@, Msg("assistant", << >>))])
            ELSE NextIteration(d)

\* runOllamaLoop: the fetch failed, or answered with a status that is not ok
OllamaFailed(c, status) ==
  OuterCatch(c, IF status = 0 THEN "Cannot reach Ollama"
                ELSE "Ollama returned HTTP " \o ToString(status))

\* runOllamaLoop: one parsed response body
OllamaResponded(c, resp) ==
  IF ~resp.choice
  THEN OuterCatch(c, "Ollama returned empty response (no choices)")
  ELSE LET d == logEvent(AddUsage(c, resp.usage), LlmCall(resp)) IN
       IF Thrown(d) THEN Caught(d)
       ELSE IF resp.ntools = 0
            THEN AfterLoop([d EXCEPT !.t.output =
                              FinalText(resp.text, resp.stop = "length")])
            ELSE NextBlock([d EXCEPT !.t.blocks = resp.ntools,
                                     !.t.calls = resp.calls,
                                     !.t.msgs = Append(@, Msg("assistant", << >>))])

\* the tool_call event of a settled call: the arguments the tool was called
\* with, the error flag and how the call settled
ToolCallEv(args, isErr, outcome) ==
  [type |-> "tool_call", is_error |-> isErr, attempt |-> 0, info |-> outcome,
   args |-> args]

\* runOllamaLoop: the result message of a call, under the call's id
ToolMsg(id, isErr) ==
  [role |-> "tool", results |-> <<isErr>>, tool_call_id |-> id]

\* variant: a raising tool call is not caught at the call site
ToolSettledAborts(c, outcome) ==
  IF outcome = "raise" THEN OuterCatch(c, "tool failed")
  ELSE LET d == logEvent(c, ToolCallEv(c.t.args, outcome # "ok", outcome)) IN
       IF Thrown(d) THEN Caught(d)
       ELSE NextBlock(
              IF d.t.provider = "anthropic"
              THEN [d EXCEPT !.t.blocks = @ - 1,
                             !.t.results = Append(@, outcome # "ok")]
              ELSE [d EXCEPT !.t.blocks = @ - 1,
                             !.t.msgs = Append(@, ToolMsg(c.t.call.id, outcome = "raise"))])

\* both loops: callTool settled for the current block. outcome is "ok",
\* "isError" (the envelope's error flag) or "raise" (callTool threw)
ToolSettled(c, outcome) ==
  LET d == logEvent(c, ToolCallEv(c.t.args, outcome # "ok", outcome)) IN
  IF Thrown(d) THEN Caught(d)
  ELSE NextBlock(
         IF d.t.provider = "anthropic"
         THEN [d EXCEPT !.t.blocks = @ - 1,
                        !.t.results = Append(@, outcome # "ok")]
         ELSE [d EXCEPT !.t.blocks = @ - 1,
                        !.t.msgs = Append(@, ToolMsg(c.t.call.id, outcome = "raise"))])

\* the retry delay elapsed: attempt++ and the request is sent again
RetryElapsed(c) == SendRequest(c, c.t.attempt + 1)

\* both loops: the conversation starts with the caller's context, or "Go."
FirstMessage(context) ==
  Msg("user", IF context = << >> THEN <<"Go.">> ELSE context)

\* runAgent from its entry to its first suspension point
RunAgentEntry(c, agent, key) ==
  IF agent = NoAgent THEN EarlyFail(c, "Agent not found")
  ELSE LET provider == parseModelProvider(agent.model) IN
       IF provider.threw THEN Settled(c, "rejected")
       ELSE IF provider.type = "anthropic" /\ ~key
            THEN EarlyFail(c, "Anthropic API key not found")
            ELSE LoopTop([c EXCEPT !.t.provider = provider.type, !.t.i = 0,
                                   !.t.model = agent.model,
                                   !.t.resolved = resolveTools(registry, agent.tools),
                                   !.t.msgs = <<FirstMessage(c.t.context)>>])

(***************************************************************************)
(* Scheduler.                                                              *)
(***************************************************************************)
\* t.startsWith("cron:")
IsCron(t) == t[1] = "cron:"

\* scheduler.ts parseCronTriggers: the cron entries, in order, each without
\* its prefix (filter startsWith("cron:"), map slice(5))
RECURSIVE parseCronTriggers(_)
parseCronTriggers(triggers) ==
  IF triggers = << >> THEN << >>
  ELSE (IF IsCron(Head(triggers)) THEN <<Head(triggers)[2]>> ELSE << >>)
         \o parseCronTriggers(Tail(triggers))

\* the cron expressions: e1 matches every 2nd instant, e2 every 3rd
Period(expr) == IF expr = "e1" THEN 2 ELSE 3

\* cron-parser next(): the first instant after `now` that expr matches
nextFire(expr, now) == ((now \div Period(expr)) + 1) * Period(expr)

\* variant of the loop: every entry replaces the one kept so far
LastOf(exprs, now, earliest) ==
  IF exprs = << >> THEN earliest
  ELSE <<nextFire(exprs[Len(exprs)], now)>>

\* scheduler.ts computeNextRun, the loop over the expressions: `earliest` is
\* null (<< >>) or the instant kept so far, replaced by a next fire before it
RECURSIVE EarliestOf(_, _, _)
EarliestOf(exprs, now, earliest) ==
  IF exprs = << >> THEN earliest
  ELSE LET next == nextFire(Head(exprs), now) IN
       EarliestOf(Tail(exprs), now,
                  IF earliest = << >> \/ next < earliest[1] THEN <<next>>
                  ELSE earliest)

\* variant: the last expression decides
computeNextRunLast(triggers, now) ==
  LET exprs == parseCronTriggers(triggers) IN
  IF exprs = << >> THEN << >> ELSE LastOf(exprs, now, << >>)

\* scheduler.ts computeNextRun: null (<< >>) without cron entries, else what
\* the loop kept, as a one-element sequence
computeNextRun(triggers, now) ==
  LET exprs == parseCronTriggers(triggers) IN
  IF exprs = << >> THEN << >> ELSE EarliestOf(exprs, now, << >>)

\* scheduler.ts updateNextRun: UPDATE agents SET next_run = ? WHERE name = ?
updateNextRun(tbl, a, triggers, now) ==
  IF tbl[a] = NoAgent THEN tbl
  ELSE [tbl EXCEPT ![a].next_run = computeNextRun(triggers, now)]

TimerIds == 1..MaxTimers
NoTimer == [absent |-> TRUE]

\* the k-th smallest id that is not running in tm
FreeId(tm, k) ==
  CHOOSE i \in TimerIds :
    /\ tm[i] = NoTimer
    /\ Cardinality({j \in TimerIds : j < i /\ tm[j] = NoTimer}) = k - 1

HasFree(tm, n) == Cardinality({i \in TimerIds : tm[i] = NoTimer}) >= n

\* The scheduler's state is passed as a record st of the agents table, the map
\* `scheduled` and the running tasks.
\* variant: the map entry is deleted without its tasks being stopped
unscheduleAgentForgets(st, a) ==
  [agents |-> IF st.agents[a] = NoAgent THEN st.agents
              ELSE [st.agents EXCEPT ![a].next_run = << >>],
   scheduled |-> [st.scheduled EXCEPT ![a] = << >>],
   timers |-> st.timers]

\* scheduler.ts unscheduleAgent: every task of the map entry is stopped, the
\* entry is deleted, next_run is set to NULL
unscheduleAgent(st, a) ==
  [agents |-> IF st.agents[a] = NoAgent THEN st.agents
              ELSE [st.agents EXCEPT ![a].next_run = << >>],
   scheduled |-> [st.scheduled EXCEPT ![a] = << >>],
   timers |-> [i \in TimerIds |->
                 IF \E k \in 1..Len(st.scheduled[a]) : st.scheduled[a][k] = i
                 THEN NoTimer ELSE st.timers[i]]]

\* scheduler.ts scheduleAgent after unscheduleAgent, with cron entries: one
\* task per entry is started under the ids given (`last` is the instant a
\* task was started or last fired at), the map entry is set and next_run is
\* updated
StartTasks(u, a, triggers, exprs, ids, now) ==
  [agents |-> updateNextRun(u.agents, a, triggers, now),
   scheduled |-> [u.scheduled EXCEPT ![a] = ids],
   timers |-> [i \in TimerIds |->
                 IF \E k \in 1..Len(exprs) : ids[k] = i
                 THEN [agent |-> a, triggers |-> triggers, last |-> now,
                       expr |-> exprs[CHOOSE k \in 1..Len(exprs) : ids[k] = i]]
                 ELSE u.timers[i]]]

ScheduleCron(u, a, triggers, exprs, now) ==
  IF exprs = << >> THEN u
  ELSE StartTasks(u, a, triggers, exprs,
                  [k \in 1..Len(exprs) |-> FreeId(u.timers, k)], now)

\* variant: the tasks of an earlier call are left running
scheduleAgentKeeps(st, a, triggers, now) ==
  IF parseCronTriggers(triggers) = << >> THEN unscheduleAgent(st, a)
  ELSE ScheduleCron(st, a, triggers, parseCronTriggers(triggers), now)

\* scheduler.ts scheduleAgent: unscheduleAgent first; without a cron entry
\* that is all; else the tasks are started
scheduleAgent(st, a, triggers, now) ==
  ScheduleCron(unscheduleAgent(st, a), a, triggers,
               parseCronTriggers(triggers), now)

\* scheduler.ts stopScheduler: every task of every map entry is stopped, the
\* map is cleared
stopScheduler(st) ==
  [agents |-> st.agents,
   scheduled |-> [a \in SchedAgents |-> << >>],
   timers |-> [i \in TimerIds |->
                 IF \E a \in SchedAgents :
                      \E k \in 1..Len(st.scheduled[a]) : st.scheduled[a][k] = i
                 THEN NoTimer ELSE st.timers[i]]]

(***************************************************************************)
(* Environment of a spawned tool process.                                  *)
(***************************************************************************)
\* Variable names are sequences of tokens, cut so that a suffix of the
\* blocklist is one token.
BLOCKED_ENV_EXACT ==
  { <<"ANTHROPIC", "_API_KEY">>, <<"OPENAI", "_API_KEY">>,
    <<"AWS_SECRET_ACCESS_KEY">>, <<"AWS_SESSION", "_TOKEN">>,
    <<"GITHUB", "_TOKEN">> }

BLOCKED_ENV_SUFFIXES == {"_TOKEN", "_SECRET", "_PASSWORD", "_API_KEY"}

\* String.toUpperCase, token by token
toUpperCase(name) ==
  [k \in 1..Len(name) |->
     CASE name[k] = "_token" -> "_TOKEN"
       [] name[k] = "_Secret" -> "_SECRET"
       [] name[k] = "_password" -> "_PASSWORD"
       [] name[k] = "_api_key" -> "_API_KEY"
       [] name[k] = "db" -> "DB"
       [] name[k] = "my" -> "MY"
       [] name[k] = "aws_secret_access_key" -> "AWS_SECRET_ACCESS_KEY"
       [] OTHER -> name[k]]

\* String.endsWith for a suffix that is one token
endsWith(name, suffix) == name # << >> /\ name[Len(name)] = suffix

\* variant: the suffix test without the case folding
isBlockedEnvVarExactCase(name) ==
  \/ name \in BLOCKED_ENV_EXACT
  \/ \E sfx \in BLOCKED_ENV_SUFFIXES : endsWith(name, sfx)

\* env.ts isBlockedEnvVar
isBlockedEnvVar(name) ==
  \/ name \in BLOCKED_ENV_EXACT
  \/ \E sfx \in BLOCKED_ENV_SUFFIXES : endsWith(toUpperCase(name), sfx)

\* env.ts filterEnv, on the set of names that have a value
filterEnv(env) == {n \in env : ~isBlockedEnvVar(n)}

\* process.env of the daemon
ProcessEnv ==
  { <<"PATH">>, <<"HOME">>, <<"GITHUB", "_TOKEN">>, <<"ANTHROPIC", "_API_KEY">>,
    <<"AWS_SECRET_ACCESS_KEY">>, <<"aws_secret_access_key">>,
    <<"db", "_password">>, <<"my", "_Secret">>, <<"MY", "_api_key">>,
    <<"TOKEN">> }

\* `env` of a server config: absent (nothing to add) or given
ConfigEnvs == { {}, { <<"GITHUB", "_TOKEN">>, <<"DEBUG">> } }

\* mcp-client.ts createMcpClient: the environment handed to the transport
childEnv(processEnv, optionsEnv) ==
  IF optionsEnv # {} THEN filterEnv(processEnv) \cup optionsEnv
  ELSE filterEnv(processEnv)

NoAdapter == [state |-> "unused", env |-> {}, disc |-> "none"]

NoOp ==
  [kind |-> "none", pc |-> "none", name |-> << >>, replace |-> FALSE,
   source |-> "", env |-> {}, client |-> NoClient, pending |-> {},
   result |-> {}]

(***************************************************************************)
(* traces.ts over run ids that are strings: a run id is a sequence of      *)
(* characters, as randomUUID returns lower-case ones.                      *)
(***************************************************************************)
IdChars == {"a", "b"}
RunUuids == [1..IdLen -> IdChars]

\* what GET /runs/:id may pass to getRun: any short string, with characters
\* that are not in any id
QueryChars == IdChars \cup {"A", "%", "_"}
Queries == UNION {[1..n -> QueryChars] : n \in 0..IdLen}

EventTypes == {"llm_call", "tool_call"}

\* createRun: INSERT INTO runs (id, agent_name, status, started_at)
createRun(d, u, a) ==
  [d EXCEPT !.runs = @ \cup {[id |-> u, agent_name |-> a, status |-> "running"]}]

StoredIds(d) == {row.id : row \in d.runs}

\* variant: the events table hands out ids downwards
insertEventDescending(d, u, type) ==
  IF u \notin StoredIds(d) THEN d
  ELSE [d EXCEPT !.seq = @ + 1,
                 !.events = @ \cup {[id |-> 0 - (d.seq + 1), run_id |-> u, type |-> type]}]

\* logEvent: INSERT INTO events (run_id, type, timestamp, data); the id is
\* INTEGER PRIMARY KEY AUTOINCREMENT, the insert fails without the run row
insertEvent(d, u, type) ==
  IF u \notin StoredIds(d) THEN d
  ELSE [d EXCEPT !.seq = @ + 1,
                 !.events = @ \cup {[id |-> d.seq + 1, run_id |-> u, type |-> type]}]

\* removeAgent: the agent's runs and their events go with it (ON DELETE
\* CASCADE)
removeRunsOf(d, a) ==
  LET gone == {row.id : row \in {w \in d.runs : w.agent_name = a}} IN
  [d EXCEPT !.runs = {row \in @ : row.agent_name # a},
            !.events = {e \in @ : e.run_id \notin gone}]

\* SQLite LIKE folds the case of ASCII letters
toLower(ch) == IF ch = "A" THEN "a" ELSE ch

\* SQLite `s LIKE pattern`: % matches any run of characters, _ any one
\* character, any other character itself without regard to case
RECURSIVE Like(_, _)
Like(pattern, str) ==
  IF pattern = << >> THEN str = << >>
  ELSE IF Head(pattern) = "%"
       THEN \E k \in 0..Len(str) :
              Like(Tail(pattern), SubSeq(str, k + 1, Len(str)))
       ELSE /\ str # << >>
            /\ Head(pattern) = "_" \/ toLower(Head(pattern)) = toLower(Head(str))
            /\ Like(Tail(pattern), Tail(str))

\* ORDER BY id ASC
RECURSIVE OrderById(_)
OrderById(rows) ==
  IF rows = {} THEN << >>
  ELSE LET first == CHOOSE e \in rows : \A f \in rows : e.id <= f.id
       IN <<first>> \o OrderById(rows \ {first})

\* getRun, the part after a row was found: the row with its events
WithEvents(d, row) ==
  [kind |-> "run", run |-> row,
   events |-> OrderById({e \in d.events : e.run_id = row.id})]

\* getRun: SELECT * FROM runs WHERE id = ?, else WHERE id LIKE ? || '%'
getRun(d, q) ==
  LET exact == {row \in d.runs : row.id = q}
      matches == {row \in d.runs : Like(q \o <<"%">>, row.id)}
  IN IF exact # {} THEN WithEvents(d, CHOOSE row \in exact : TRUE)
     ELSE IF matches = {} THEN [kind |-> "null"]
     ELSE IF Cardinality(matches) > 1 THEN [kind |-> "ambiguous"]
     ELSE WithEvents(d, CHOOSE row \in matches : TRUE)

(***************************************************************************)
(* Callers of runAgent.                                                    *)
(***************************************************************************)
\* variant: the handler awaits runAgent before it answers
RespondsAfterRun == FALSE

\* server.ts POST /agents/:name/run answers 202 right after createRun, with
\* runAgent detached behind import().then()
RespondsBeforeRun == TRUE

\* variant: a rejected runAgent promise is left unhandled by its caller
CrashesOnRejection(caller) == caller \notin {"manual", "cron"}

\* what a rejected runAgent promise does to the process: both callers catch
\* it (server.ts .catch(() => {}), scheduler.ts catch (err) {...}), so the
\* daemon stays up
SurvivesRejection(caller) == caller \in {"manual", "cron"}

Response(id, c) ==
  [runId |-> id, code |-> 202, runStatus |-> c.row.status, taskPc |-> c.t.pc,
   provCalls |-> c.pc]

IsSettled(t) == t.pc \in {"resolved", "rejected"}

\* variant: next_run is only rewritten after a run that did not raise
CallbackEndsOnSuccess(c) ==
  IF c.t.pc = "resolved" /\ c.t.caller = "cron"
  THEN updateNextRun(agents, c.t.agent, c.t.triggers, clock)
  ELSE agents

\* scheduler.ts, the timer callback's finally: once runAgent has settled,
\* either way, updateNextRun(agentName, triggers) with the callback's triggers
CallbackEnds(c) ==
  IF IsSettled(c.t) /\ c.t.caller = "cron"
  THEN updateNextRun(agents, c.t.agent, c.t.triggers, clock)
  ELSE agents

\* one segment of runAgent for run r ended in context c: the run's own state
\* is stored, and if the promise settled the caller's handlers run
Apply(r, c) ==
  /\ tasks' = [tasks EXCEPT ![r] = c.t]
  /\ runs' = [runs EXCEPT ![r] = c.row]
  /\ events' = [events EXCEPT ![r] = c.ev]
  /\ termWrites' = [termWrites EXCEPT ![r] = c.tw]
  /\ writeAt' = [writeAt EXCEPT ![r] = c.wa]
  /\ provCalls' = [provCalls EXCEPT ![r] = c.pc]
  /\ agents' = CallbackEnds(c)
  /\ daemonUp' = IF c.t.pc = "rejected" THEN SurvivesRejection(c.t.caller)
                 ELSE daemonUp
  /\ responses' = IF IsSettled(c.t) /\ c.t.caller = "manual" /\ ~RespondsBeforeRun
                  THEN Append(responses, Response(r, c))
                  ELSE responses

NewCtx(t, row) ==
  [t |-> t, row |-> row, ev |-> << >>, tw |-> 0, wa |-> -1, pc |-> 0,
   threw |-> "none"]

(***************************************************************************)
(* Actions.                                                                *)
(***************************************************************************)
\* server.ts initTools: the in-process servers, in registration order
BuiltIn ==
  << ServerEntry(<<"shell">>, NoClient, {<<"exec">>}, TRUE, "built-in"),
     ServerEntry(<<"git">>, NoClient, {<<"status">>}, TRUE, "built-in") >>

Boot ==
  /\ agents = [a \in SchedAgents |-> NoAgent]
  /\ runs = [r \in RunIds |-> NoRow]
  /\ events = [r \in RunIds |-> << >>]
  /\ nextId = 0
  /\ tasks = [r \in RunIds |-> NoTask]
  /\ scheduled = [a \in SchedAgents |-> << >>]
  /\ timers = [i \in TimerIds |-> NoTimer]
  /\ cronCalls = << >>
  /\ adapters = [a \in AdapterIds |-> NoAdapter]
  /\ regOps = [o \in OpIds |-> NoOp]
  /\ lastCall = NoCall
  /\ apiKey \in BOOLEAN
  /\ daemonUp = TRUE
  /\ responses = << >>
  /\ termWrites = [r \in RunIds |-> 0]
  /\ writeAt = [r \in RunIds |-> -1]
  /\ provCalls = [r \in RunIds |-> 0]
  /\ envLog = [r \in RunIds |-> << >>]
  /\ toolLog = [r \in RunIds |-> << >>]
  /\ clock = 1
  /\ store = [runs |-> {}, events |-> {}, seq |-> 0]
  /\ lastGet = [q |-> << >>, result |-> [kind |-> "none"]]
  /\ logCalls = [u \in RunUuids |-> << >>]
  /\ naming = NoNaming

Init ==
  /\ Boot
  /\ registry = BuiltIn
  /\ build = "src"
  /\ turnsLeft = ConcTurns
  /\ faultsLeft = ConcFaults
  /\ cap = [runs |-> MaxRuns, calmAt |-> ConcTurns - FaultTurns]

InitRun ==
  /\ Boot
  /\ registry = BuiltIn
  /\ build = "src"
  /\ turnsLeft = MaxTurns
  /\ faultsLeft = MaxFaults
  /\ cap = [runs |-> DeepRuns, calmAt |-> MaxTurns - FaultTurns]

\* the environment may still misbehave
FaultOk == faultsLeft > 0 /\ turnsLeft > cap.calmAt

\* the scheduler's state
Sched == [agents |-> agents, scheduled |-> scheduled, timers |-> timers]

SchedBecomes(st) ==
  /\ agents' = st.agents
  /\ scheduled' = st.scheduled
  /\ timers' = st.timers

\* POST /agents: createAgent (validation, INSERT with the next_run it
\* computes itself) then scheduleAgent
CreateAgent(a, model, tools, triggers) ==
  /\ daemonUp
  /\ agents[a] = NoAgent
  /\ MODEL_PATTERN(model)
  /\ HasFree(timers, Len(parseCronTriggers(triggers)))
  /\ \E st \in {scheduleAgent(
                   [Sched EXCEPT !.agents[a] =
                      [model |-> model, tools |-> tools, triggers |-> triggers,
                       next_run |-> computeNextRun(triggers, clock)]],
                   a, triggers, clock)} : SchedBecomes(st)
  /\ UNCHANGED << clock, regVars, cap, toolLog, runs, events, nextId, tasks, cronCalls, registry, apiKey,
                  daemonUp, responses, termWrites, writeAt, provCalls, envLog,
                  turnsLeft, faultsLeft >>

\* DELETE /agents/:name: unscheduleAgent, then removeAgent; the agent's runs
\* and their events go with it (ON DELETE CASCADE)
DeleteAgent(a) ==
  /\ daemonUp
  /\ agents[a] # NoAgent
  /\ FaultOk
  /\ faultsLeft' = faultsLeft - 1
  /\ \E st \in {unscheduleAgent(Sched, a)} :
       SchedBecomes([st EXCEPT !.agents[a] = NoAgent])
  /\ runs' = [r \in RunIds |->
                IF runs[r] # NoRow /\ runs[r].agent_name = a THEN NoRow
                ELSE runs[r]]
  /\ events' = [r \in RunIds |->
                  IF runs[r] # NoRow /\ runs[r].agent_name = a THEN << >>
                  ELSE events[r]]
  /\ UNCHANGED << clock, regVars, cap, toolLog, nextId, tasks, cronCalls, registry, apiKey, daemonUp,
                  responses, termWrites, writeAt, provCalls, envLog, turnsLeft >>

\* POST /agents/:name/run: 404 without the agent; else createRun, detach
\* runAgent, answer 202 with the run id
TriggerManual(a) ==
  /\ daemonUp
  /\ agents[a] # NoAgent
  /\ nextId + Len(cronCalls) < cap.runs
  /\ LET id == nextId + 1
         c == NewCtx([NoTask EXCEPT !.pc = "scheduled", !.caller = "manual",
                                    !.agent = a], NewRow(a))
     IN /\ nextId' = id
        /\ runs' = [runs EXCEPT ![id] = c.row]
        /\ tasks' = [tasks EXCEPT ![id] = c.t]
        /\ responses' = IF RespondsBeforeRun
                        THEN Append(responses, Response(id, c))
                        ELSE responses
  /\ UNCHANGED << clock, regVars, cap, toolLog, agents, events, scheduled, timers, cronCalls, registry, apiKey,
                  daemonUp, termWrites, writeAt, provCalls, envLog, turnsLeft,
                  faultsLeft >>

\* the detached task of a manual trigger starts: runAgent up to its first
\* suspension point
ManualStart(r) ==
  /\ daemonUp
  /\ tasks[r].pc = "scheduled"
  /\ Apply(r, RunAgentEntry(Ctx(r), agents[tasks[r].agent], apiKey))
  /\ UNCHANGED << clock, regVars, cap, toolLog, nextId, scheduled, timers, cronCalls, registry, apiKey, envLog,
                  turnsLeft, faultsLeft >>

\* the instant at which a running task fires next
FiresAt(timer) == nextFire(timer.expr, timer.last)

LiveTimers == {timers[i] : i \in {j \in TimerIds : timers[j] # NoTimer}}

\* the clock reaches the next fire instant of a running task, no other task
\* being due before it: the task fires, its callback starts and awaits its
\* imports
CronFire(id) ==
  /\ daemonUp
  /\ timers[id] # NoTimer
  /\ nextId + Len(cronCalls) < cap.runs
  /\ FiresAt(timers[id]) <= MaxClock
  /\ \A t \in LiveTimers : FiresAt(timers[id]) <= FiresAt(t)
  /\ clock' = FiresAt(timers[id])
  /\ timers' = [timers EXCEPT ![id].last = clock']
  /\ cronCalls' = Append(cronCalls, timers[id])
  /\ UNCHANGED << regVars, cap, toolLog, agents, runs, events, nextId, tasks, registry,
                  scheduled, apiKey, daemonUp, responses, termWrites, writeAt, provCalls,
                  envLog, turnsLeft, faultsLeft >>

\* an instant passes at which no running task is due
Tick ==
  /\ daemonUp
  /\ clock < MaxClock
  /\ \A t \in LiveTimers : FiresAt(t) > clock + 1
  /\ clock' = clock + 1
  /\ UNCHANGED << regVars, cap, toolLog, agents, runs, events, nextId, tasks, scheduled,
                  timers, cronCalls, registry, apiKey, daemonUp, responses,
                  termWrites, writeAt, provCalls, envLog, turnsLeft, faultsLeft >>

\* scheduleAgent is called for an agent of the table, as initScheduler does
ScheduleAgent(a, triggers) ==
  /\ daemonUp
  /\ agents[a] # NoAgent
  /\ HasFree(unscheduleAgent(Sched, a).timers, Len(parseCronTriggers(triggers)))
  /\ \E st \in {scheduleAgent(Sched, a, triggers, clock)} : SchedBecomes(st)
  /\ UNCHANGED << clock, regVars, cap, toolLog, runs, events, nextId, tasks, cronCalls,
                  registry, apiKey, daemonUp, responses, termWrites, writeAt, provCalls,
                  envLog, turnsLeft, faultsLeft >>

\* scheduler.ts: the context of a scheduled run, `Scheduled run (cron: ${expr})`
ScheduledContext(expr) == <<"Scheduled run (cron: ", expr, ")">>

Without(s, j) == [k \in 1..(Len(s) - 1) |-> IF k < j THEN s[k] ELSE s[k + 1]]

\* the callback goes on: createRun, then runAgent up to its first suspension
\* point. createRun fails when the agent is gone; the callback's catch and
\* finally (updateNextRun) then run at once
CronCreateRun(j) ==
  /\ daemonUp
  /\ j \in 1..Len(cronCalls)
  /\ cronCalls' = Without(cronCalls, j)
  /\ LET call == cronCalls[j]
         id == nextId + 1
         t == [NoTask EXCEPT !.pc = "scheduled", !.caller = "cron",
                             !.agent = call.agent, !.triggers = call.triggers,
                             !.context = ScheduledContext(call.expr)]
     IN IF agents[call.agent] = NoAgent
        THEN UNCHANGED << agents, runs, events, nextId, tasks, daemonUp,
                          responses, termWrites, writeAt, provCalls >>
        ELSE /\ nextId' = id
             /\ Apply(id, RunAgentEntry(NewCtx(t, NewRow(call.agent)),
                                        agents[call.agent], apiKey))
  /\ UNCHANGED << clock, regVars, cap, toolLog, scheduled, timers, registry, apiKey, envLog, turnsLeft, faultsLeft >>

Awaiting(r, pc) == daemonUp /\ tasks[r].pc = pc

Logged(r, outcome) == envLog' = [envLog EXCEPT ![r] = Append(@, outcome)]

\* the provider request fails with an HTTP status, or with no status at all
ProviderError(r, status) ==
  /\ Awaiting(r, "awaitLLM")
  /\ FaultOk
  /\ faultsLeft' = faultsLeft - 1
  /\ Logged(r, status)
  /\ Apply(r, IF tasks[r].provider = "anthropic"
              THEN AnthropicFailed(Ctx(r), status)
              ELSE OllamaFailed(Ctx(r), status))
  /\ UNCHANGED << clock, regVars, cap, toolLog, nextId, scheduled, timers, cronCalls, registry, apiKey, turnsLeft >>

\* the provider answers with no further tool calls
ProviderFinal(r, hasText, truncated, usage) ==
  /\ Awaiting(r, "awaitLLM")
  /\ Logged(r, 200)
  /\ Apply(r, IF tasks[r].provider = "anthropic"
              THEN AnthropicResponded(Ctx(r),
                     [stop |-> IF truncated THEN "max_tokens" ELSE "end_turn",
                      text |-> hasText, ntools |-> 0, usage |-> usage])
              ELSE OllamaResponded(Ctx(r),
                     [choice |-> TRUE, text |-> hasText, ntools |-> 0,
                      stop |-> IF truncated THEN "length" ELSE "stop",
                      usage |-> usage]))
  /\ UNCHANGED << clock, regVars, cap, toolLog, nextId, scheduled, timers, cronCalls, registry, apiKey, turnsLeft,
                  faultsLeft >>

\* the provider requests the tool calls `calls`
ProviderToolUse(r, calls, usage) ==
  /\ Awaiting(r, "awaitLLM")
  /\ turnsLeft > 0
  /\ Len(calls) > 1 => FaultOk
  /\ turnsLeft' = turnsLeft - 1
  /\ faultsLeft' = faultsLeft - (Len(calls) - 1)
  /\ Logged(r, 200)
  /\ Apply(r, IF tasks[r].provider = "anthropic"
              THEN AnthropicResponded(Ctx(r),
                     [stop |-> "tool_use", text |-> FALSE, ntools |-> Len(calls),
                      calls |-> calls, usage |-> usage])
              ELSE OllamaResponded(Ctx(r),
                     [choice |-> TRUE, text |-> FALSE, ntools |-> Len(calls),
                      calls |-> calls, stop |-> "tool_calls", usage |-> usage]))
  /\ UNCHANGED << clock, regVars, cap, toolLog, nextId, scheduled, timers, cronCalls, registry, apiKey >>

\* an unusual answer: Provider A stops for a reason the loop has no branch
\* for (pause_turn); Provider B answers without any choice, which the loop
\* treats as a failed request without a status
ProviderOdd(r) ==
  /\ Awaiting(r, "awaitLLM")
  /\ turnsLeft > 0
  /\ FaultOk
  /\ turnsLeft' = turnsLeft - 1
  /\ faultsLeft' = faultsLeft - 1
  /\ Logged(r, IF tasks[r].provider = "anthropic" THEN 200 ELSE 0)
  /\ Apply(r, IF tasks[r].provider = "anthropic"
              THEN AnthropicResponded(Ctx(r),
                     [stop |-> "pause_turn", text |-> FALSE, ntools |-> 0,
                      usage |-> OneUsage])
              ELSE OllamaResponded(Ctx(r),
                     [choice |-> FALSE, text |-> FALSE, ntools |-> 0,
                      stop |-> "stop", usage |-> NoUsage]))
  /\ UNCHANGED << clock, regVars, cap, toolLog, nextId, scheduled, timers, cronCalls, registry, apiKey >>

\* the retry delay of a transient failure elapsed
RetryDelay(r) ==
  /\ Awaiting(r, "retryDelay")
  /\ Apply(r, RetryElapsed(Ctx(r)))
  /\ UNCHANGED << clock, regVars, cap, toolLog, nextId, scheduled, timers, cronCalls, registry, apiKey, envLog,
                  turnsLeft, faultsLeft >>

\* callTool settles without raising and without the error flag
ToolOk(r) ==
  /\ Awaiting(r, "awaitTool")
  /\ tasks[r].target.error = "none"
  /\ toolLog' = [toolLog EXCEPT ![r] = Append(@, "ok")]
  /\ Apply(r, ToolSettled(Ctx(r), "ok"))
  /\ UNCHANGED << clock, regVars, cap, nextId, scheduled, timers, cronCalls, registry, apiKey, envLog,
                  turnsLeft, faultsLeft >>

\* callTool returns an error-flagged envelope, or raises
ToolFails(r, outcome) ==
  /\ Awaiting(r, "awaitTool")
  /\ outcome = "isError" => tasks[r].target.error = "none"
  /\ FaultOk
  /\ faultsLeft' = faultsLeft - 1
  /\ toolLog' = [toolLog EXCEPT ![r] = Append(@, outcome)]
  /\ Apply(r, ToolSettled(Ctx(r), outcome))
  /\ UNCHANGED << clock, regVars, cap, nextId, scheduled, timers, cronCalls, registry, apiKey, envLog,
                  turnsLeft >>

Next ==
  \/ \E a \in AgentNames, m \in ModelIds, tr \in TriggerLists : CreateAgent(a, m, ShellTools, tr)
  \/ \E a \in AgentNames : DeleteAgent(a)
  \/ \E a \in AgentNames : TriggerManual(a)
  \/ \E r \in RunIds : ManualStart(r)
  \/ \E id \in TimerIds : CronFire(id)
  \/ \E j \in 1..Len(cronCalls) : CronCreateRun(j)
  \/ \E r \in RunIds, s \in ErrorStatuses : ProviderError(r, s)
  \/ \E r \in RunIds, x \in BOOLEAN, y \in BOOLEAN : ProviderFinal(r, x, y, OneUsage)
  \/ \E r \in RunIds, n \in 1..MaxBlocks : ProviderToolUse(r, PlainCalls(n), OneUsage)
  \/ \E r \in RunIds : ProviderOdd(r)
  \/ \E r \in RunIds : RetryDelay(r)
  \/ \E r \in RunIds : ToolOk(r)
  \/ \E r \in RunIds, o \in {"isError", "raise"} : ToolFails(r, o)

Spec == Init /\ [][Next]_vars

SpecRun == InitRun /\ [][Next]_vars

\* The scheduler against the clock: agents with up to two cron entries, timers
\* that fire when their instant comes, and runs that end after one provider
\* request.
SchedTriggerLists ==
  { <<Manual>>, <<CronE1, Manual>>, <<CronE2, CronE1>> }

SchedModels == { <<"claude-", "sonnet-4">> }

NextSched ==
  \/ \E a \in SchedAgents, m \in SchedModels, tr \in SchedTriggerLists :
       CreateAgent(a, m, ShellTools, tr)
  \/ \E a \in SchedAgents, tr \in SchedTriggerLists : ScheduleAgent(a, tr)
  \/ \E a \in SchedAgents : DeleteAgent(a)
  \/ Tick
  \/ \E id \in TimerIds : CronFire(id)
  \/ \E j \in 1..Len(cronCalls) : CronCreateRun(j)
  \/ \E r \in RunIds : ProviderFinal(r, TRUE, FALSE, OneUsage)
  \/ \E r \in RunIds : ProviderError(r, 400)

InitSched ==
  /\ Boot
  /\ apiKey = TRUE
  /\ registry = BuiltIn
  /\ build = "src"
  /\ turnsLeft = 0
  /\ faultsLeft = ConcFaults
  /\ cap = [runs |-> DeepRuns, calmAt |-> -1]

SpecSched == InitSched /\ [][NextSched]_vars

\* Runs and what they cost: agents on a priced Provider A model, on a
\* Provider A model without a price and on Provider B, triggered by hand;
\* the responses report varying token counts.
CostModels ==
  { <<"claude-", "sonnet-4-20250514">>, <<"claude-", "sonnet-4">>,
    <<"ollama/", "llama3">> }

NextCost ==
  \/ \E a \in AgentNames, m \in CostModels : CreateAgent(a, m, ShellTools, <<Manual>>)
  \/ \E a \in AgentNames : TriggerManual(a)
  \/ \E r \in RunIds : ManualStart(r)
  \/ \E r \in RunIds, x \in BOOLEAN, u \in Usages : ProviderFinal(r, x, FALSE, u)
  \/ \E r \in RunIds, n \in 1..MaxBlocks, u \in Usages :
       ProviderToolUse(r, PlainCalls(n), u)
  \/ \E r \in RunIds : ProviderOdd(r)
  \/ \E r \in RunIds, s \in {400, 429} : ProviderError(r, s)
  \/ \E r \in RunIds : RetryDelay(r)
  \/ \E r \in RunIds : ToolOk(r)
  \/ \E r \in RunIds : ToolFails(r, "raise")

InitCost ==
  /\ Boot
  /\ apiKey = TRUE
  /\ registry = BuiltIn
  /\ build = "src"
  /\ turnsLeft = ConcTurns
  /\ faultsLeft = ConcFaults
  /\ cap = [runs |-> DeepRuns, calmAt |-> -1]

SpecCost == InitCost /\ [][NextCost]_vars

\* Provider B runs whose provider asks for tools with arguments strings of
\* every kind: objects, JSON that is no object, text that is no JSON.
ArgCalls ==
  UNION { { [k \in 1..n |-> ToolCall(10 + k, ShellExec, f[k], EmptyObject)] :
              f \in [1..n -> ArgStrings] } : n \in 1..MaxBlocks }

ArgModels == { <<"ollama/", "llama3">> }

NextArgs ==
  \/ \E a \in AgentNames, m \in ArgModels : CreateAgent(a, m, ShellTools, <<Manual>>)
  \/ \E a \in AgentNames : DeleteAgent(a)
  \/ \E a \in AgentNames : TriggerManual(a)
  \/ \E r \in RunIds : ManualStart(r)
  \/ \E r \in RunIds, x \in BOOLEAN : ProviderFinal(r, x, FALSE, OneUsage)
  \/ \E r \in RunIds, calls \in ArgCalls : ProviderToolUse(r, calls, OneUsage)
  \/ \E r \in RunIds : ProviderError(r, 503)
  \/ \E r \in RunIds : ToolOk(r)
  \/ \E r \in RunIds, o \in {"isError", "raise"} : ToolFails(r, o)

SpecArgs == InitCost /\ [][NextArgs]_vars

\* Runs of agents that refer to some of the registered tools, with providers
\* that ask for tools by any name: one the agent refers to, one of another
\* server, one that is not registered.
ToolRefLists ==
  { << >>, << <<"git">> >>, << <<"shell", ".", "exec">> >>,
    << <<"git", ".", "nosuch">>, <<"fs">> >> }

RequestedNames ==
  { ShellExec, <<"git", "_", "_", "status">>, <<"fs", "_", "_", "read">>,
    <<"exec">> }

NamedCalls ==
  { <<ToolCall(1, n, <<"{", "}">>, EmptyObject)>> : n \in RequestedNames }

ToolModels == { <<"claude-", "sonnet-4">>, <<"ollama/", "llama3">> }

NextTools ==
  \/ \E a \in AgentNames, m \in ToolModels, tl \in ToolRefLists :
       CreateAgent(a, m, tl, <<Manual>>)
  \/ \E a \in AgentNames : TriggerManual(a)
  \/ \E r \in RunIds : ManualStart(r)
  \/ \E r \in RunIds : ProviderFinal(r, TRUE, FALSE, OneUsage)
  \/ \E r \in RunIds, calls \in NamedCalls : ProviderToolUse(r, calls, OneUsage)
  \/ \E r \in RunIds : ToolOk(r)
  \/ \E r \in RunIds, o \in {"isError", "raise"} : ToolFails(r, o)

SpecTools == InitCost /\ [][NextTools]_vars

\* The store's terminal writes called for any stored run id, by runAgent and
\* by any other holder of the id, with arguments of every kind.
CompleteArgs ==
  { [output |-> <<"text">>, totalInputTokens |-> 1, totalOutputTokens |-> 1,
     costUsd |-> 18, toolCalls |-> 0, durationMs |-> ElapsedMs],
    [output |-> <<"other">>, totalInputTokens |-> 7, totalOutputTokens |-> 9,
     costUsd |-> 0, toolCalls |-> 2, durationMs |-> ZeroMs] }

FailArgs == { FailParams("late error", ZeroMs), FailParams("again", ElapsedMs) }

\* completeRun(runId, params) on a stored run
CompleteRun(r, params) ==
  /\ daemonUp
  /\ HasRow(r)
  /\ termWrites[r] < MaxWrites
  /\ \E c \in {completeRun(Ctx(r), params)} :
       /\ runs' = [runs EXCEPT ![r] = c.row]
       /\ termWrites' = [termWrites EXCEPT ![r] = c.tw]
       /\ writeAt' = [writeAt EXCEPT ![r] = c.wa]
  /\ UNCHANGED << clock, regVars, cap, toolLog, agents, events, nextId, tasks,
                  scheduled, timers, cronCalls, registry, apiKey, daemonUp,
                  responses, provCalls, envLog, turnsLeft, faultsLeft >>

\* failRun(runId, params) on a stored run
FailRun(r, params) ==
  /\ daemonUp
  /\ HasRow(r)
  /\ termWrites[r] < MaxWrites
  /\ \E c \in {failRun(Ctx(r), params)} :
       /\ runs' = [runs EXCEPT ![r] = c.row]
       /\ termWrites' = [termWrites EXCEPT ![r] = c.tw]
       /\ writeAt' = [writeAt EXCEPT ![r] = c.wa]
  /\ UNCHANGED << clock, regVars, cap, toolLog, agents, events, nextId, tasks,
                  scheduled, timers, cronCalls, registry, apiKey, daemonUp,
                  responses, provCalls, envLog, turnsLeft, faultsLeft >>

NextWrites ==
  \/ \E a \in AgentNames, m \in CostModels : CreateAgent(a, m, ShellTools, <<Manual>>)
  \/ \E a \in AgentNames : TriggerManual(a)
  \/ \E r \in RunIds : ManualStart(r)
  \/ \E r \in RunIds, x \in BOOLEAN : ProviderFinal(r, x, FALSE, OneUsage)
  \/ \E r \in RunIds : ProviderToolUse(r, PlainCalls(1), OneUsage)
  \/ \E r \in RunIds : ProviderError(r, 400)
  \/ \E r \in RunIds : ToolOk(r)
  \/ \E r \in RunIds, p \in CompleteArgs : CompleteRun(r, p)
  \/ \E r \in RunIds, p \in FailArgs : FailRun(r, p)

SpecWrites == InitCost /\ [][NextWrites]_vars

(***************************************************************************)
(* Registry operations.                                                    *)
(***************************************************************************)
runnerVars ==
  << agents, runs, events, nextId, tasks, cronCalls, apiKey, responses,
     termWrites, writeAt, provCalls, envLog, toolLog, turnsLeft, faultsLeft, cap,
     clock, storeVars, naming >>

\* the servers a registration may name, the tool lists an adapter may report,
\* and the names callTool is asked for
ServerNames == { <<"fs">>, <<"shell">> }
ToolLists == { {<<"read">>}, {<<"read">>, <<"write">>} }
CallNames ==
  { <<"read">>, <<"nosuch", ".", "read">>, <<"fs", ".", "nosuch">>,
    <<"fs", ".", "read">>, <<"shell", ".", "exec">> }

\* variant: a failed or timed-out close is passed on to the caller
disconnectRethrows(how) == IF how = "closed" THEN "resolved" ELSE "rejected"

\* mcp-client.ts disconnect(): close() raced against the 5 s timer inside
\* try/catch. `how` is what the race did: "closed" (close completed),
\* "raised" (close rejected) or "timeout" (the timer rejected first)
disconnect(how) == "resolved"

\* the id the next adapter gets
NewAdapter == CHOOSE a \in AdapterIds :
                adapters[a].state = "unused"
                  /\ \A b \in AdapterIds : b < a => adapters[b].state # "unused"

\* mcp-client.ts createMcpClient up to `await client.connect(transport)`,
\* as a step of operation o
createMcpClient(o, op) ==
  /\ adapters' = [adapters EXCEPT ![NewAdapter] =
                    [state |-> "connecting",
                     env |-> childEnv(ProcessEnv, op.env), disc |-> "none"]]
  /\ regOps' = [regOps EXCEPT ![o] =
                  [op EXCEPT !.pc = "awaitConnect", !.client = NewAdapter,
                             !.pending = {}]]

\* operation slots are taken in order
FreeOp(o) ==
  /\ daemonUp
  /\ regOps[o].kind = "none"
  /\ \A q \in OpIds : q < o => regOps[q].kind # "none"

\* variant: a registered name is always connected anew
registerServerAlways(o, name, replace, cfgEnv) ==
  /\ FreeOp(o)
  /\ createMcpClient(o, [NoOp EXCEPT !.kind = "register", !.name = name,
                                     !.replace = replace, !.env = cfgEnv,
                                     !.source = "manual"])
  /\ UNCHANGED << registry, lastCall, build, scheduled, timers, daemonUp, runnerVars >>

\* registry.ts registerServer from its entry to its first suspension point
registerServer(o, name, replace, cfgEnv) ==
  /\ FreeOp(o)
  /\ LET existing == serversGet(registry, name)
         op == [NoOp EXCEPT !.kind = "register", !.name = name,
                            !.replace = replace, !.env = cfgEnv,
                            !.source = IF replace THEN "agentd-tools"
                                       ELSE "manual"]
     IN IF existing # NoEntry /\ ~replace
        THEN /\ regOps' = [regOps EXCEPT ![o] =
                             [op EXCEPT !.pc = "resolved",
                                        !.result = existing.tools]]
             /\ UNCHANGED adapters
        ELSE IF existing = NoEntry
             THEN createMcpClient(o, op)
             ELSE IF existing.client = NoClient
                  THEN IF build = "src"
                       THEN \* existing.client.disconnect() on null: TypeError
                            /\ regOps' = [regOps EXCEPT ![o] =
                                            [op EXCEPT !.pc = "rejected"]]
                            /\ UNCHANGED adapters
                       ELSE \* existing.client?.disconnect(): nothing to await
                            createMcpClient(o, op)
                  ELSE /\ adapters' = [adapters EXCEPT
                                         ![existing.client].disc = "pending"]
                       /\ regOps' = [regOps EXCEPT ![o] =
                                       [op EXCEPT !.pc = "awaitOld",
                                                  !.pending = {existing.client}]]
  /\ UNCHANGED << registry, lastCall, build, scheduled, timers, daemonUp, runnerVars >>

\* the clients of the entries before the first one without a client
RECURSIVE ClientsBeforeNull(_)
ClientsBeforeNull(reg) ==
  IF reg = << >> \/ Head(reg).client = NoClient THEN {}
  ELSE {Head(reg).client} \cup ClientsBeforeNull(Tail(reg))

AllClients(reg) ==
  {reg[k].client : k \in {j \in 1..Len(reg) : reg[j].client # NoClient}}

\* server.ts shutdown up to its first suspension point: stopScheduler, then
\* registry.ts disconnectAll (entries copied, servers.clear(), disconnect of
\* every entry's client started, await Promise.allSettled). process.exit(0)
\* follows the await; a rejection of disconnectAll is unhandled and ends the
\* process as well
shutdown(o) ==
  /\ FreeOp(o)
  /\ registry' = << >>
  /\ scheduled' = stopScheduler(Sched).scheduled
  /\ timers' = stopScheduler(Sched).timers
  /\ LET op == [NoOp EXCEPT !.kind = "disconnectAll"]
         throws == build = "src" /\ \E k \in 1..Len(registry) :
                                      registry[k].client = NoClient
         started == IF throws THEN ClientsBeforeNull(registry)
                    ELSE AllClients(registry)
     IN /\ adapters' = [a \in AdapterIds |->
                          IF a \in started
                          THEN [adapters[a] EXCEPT !.disc = "pending"]
                          ELSE adapters[a]]
        /\ regOps' = [regOps EXCEPT ![o] =
                        [op EXCEPT !.pending = started,
                                   !.pc = IF throws THEN "rejected"
                                          ELSE IF started = {} THEN "resolved"
                                          ELSE "awaitAll"]]
        /\ daemonUp' = ~(throws \/ started = {})
  /\ UNCHANGED << lastCall, build, runnerVars >>

\* a disconnect() that operation o started on adapter a settles
disconnectSettles(o, a, how) ==
  /\ daemonUp
  /\ a \in regOps[o].pending
  /\ LET op == [regOps[o] EXCEPT !.pending = @ \ {a}]
         ads == [adapters EXCEPT ![a].disc = disconnect(how)]
     IN IF op.pc = "awaitOld"
        THEN \* .catch(() => {}) and on to createMcpClient
             /\ adapters' = [ads EXCEPT ![NewAdapter] =
                               [state |-> "connecting",
                                env |-> childEnv(ProcessEnv, op.env),
                                disc |-> "none"]]
             /\ regOps' = [regOps EXCEPT ![o] =
                             [op EXCEPT !.pc = "awaitConnect",
                                        !.client = NewAdapter]]
             /\ UNCHANGED daemonUp
        ELSE /\ adapters' = ads
             /\ regOps' = [regOps EXCEPT ![o] =
                             IF op.pc = "awaitAll" /\ op.pending = {}
                             THEN [op EXCEPT !.pc = "resolved"]
                             ELSE op]
             /\ daemonUp' = ~(op.pc = "awaitAll" /\ op.pending = {})
  /\ UNCHANGED << registry, lastCall, build, scheduled, timers, runnerVars >>

\* client.connect(transport) of operation o settles
connectSettles(o, ok) ==
  /\ daemonUp
  /\ regOps[o].pc = "awaitConnect"
  /\ adapters' = [adapters EXCEPT ![regOps[o].client].state =
                    IF ok THEN "connected" ELSE "failed"]
  /\ regOps' = [regOps EXCEPT ![o].pc = IF ok THEN "awaitList" ELSE "rejected"]
  /\ UNCHANGED << registry, lastCall, build, scheduled, timers, daemonUp, runnerVars >>

\* client.listTools() of operation o settles: the entry is stored
listSettles(o, ok, tools) ==
  /\ daemonUp
  /\ regOps[o].pc = "awaitList"
  /\ IF ok
     THEN /\ registry' = serversSet(registry,
                           ServerEntry(regOps[o].name, regOps[o].client, tools,
                                       FALSE, regOps[o].source))
          /\ regOps' = [regOps EXCEPT ![o].pc = "resolved", ![o].result = tools]
     ELSE /\ regOps' = [regOps EXCEPT ![o].pc = "rejected"]
          /\ UNCHANGED registry
  /\ UNCHANGED << adapters, lastCall, build, scheduled, timers, daemonUp, runnerVars >>

\* registry.ts registerLocalServer
registerLocalServer(name, tools) ==
  /\ daemonUp
  /\ registry' = serversSet(registry,
                            ServerEntry(name, NoClient, tools, TRUE, "built-in"))
  /\ UNCHANGED << adapters, regOps, lastCall, build, scheduled, timers, daemonUp,
                  runnerVars >>

\* POST /tools/call, or a run's tool call: registry.ts callTool
CallTool(toolName) ==
  /\ daemonUp
  /\ lastCall' = callTool(registry, toolName)
  /\ UNCHANGED << registry, adapters, regOps, build, scheduled, timers, daemonUp,
                  runnerVars >>

NextReg ==
  \/ \E o \in OpIds, n \in ServerNames, rp \in BOOLEAN, e \in ConfigEnvs :
       registerServer(o, n, rp, e)
  \/ \E o \in OpIds : shutdown(o)
  \/ \E o \in OpIds, a \in AdapterIds, how \in {"closed", "raised", "timeout"} :
       disconnectSettles(o, a, how)
  \/ \E o \in OpIds, ok \in BOOLEAN : connectSettles(o, ok)
  \/ \E o \in OpIds, ok \in BOOLEAN, t \in ToolLists : listSettles(o, ok, t)
  \/ \E n \in ServerNames : registerLocalServer(n, {<<"exec">>})
  \/ \E n \in CallNames : CallTool(n)

\* the registry after module load, before startServer has registered anything
InitReg ==
  /\ Boot
  /\ apiKey = FALSE
  /\ registry = << >>
  /\ build \in {"src", "dist"}
  /\ turnsLeft = 0
  /\ faultsLeft = 0
  /\ cap = [runs |-> 0, calmAt |-> 0]

SpecReg == InitReg /\ [][NextReg]_vars

(***************************************************************************)
(* The trace store on its own: runs are created, events logged, agents     *)
(* removed and runs looked up, in any order.                               *)
(***************************************************************************)
baseVars ==
  << agents, runs, events, nextId, tasks, scheduled, timers, cronCalls, registry,
     apiKey, daemonUp, responses, termWrites, writeAt, provCalls, envLog, toolLog,
     turnsLeft, faultsLeft, cap, adapters, regOps, lastCall, build, clock >>

nonStoreVars == << baseVars, naming >>

\* createRun(agentName) with the id randomUUID returned
CreateRun(u, a) ==
  /\ Cardinality(store.runs) < MaxStored
  /\ u \notin StoredIds(store)
  /\ store' = createRun(store, u, a)
  /\ logCalls' = [logCalls EXCEPT ![u] = << >>]
  /\ UNCHANGED << lastGet, nonStoreVars >>

\* logEvent(runId, type, data) by the runAgent invocation of run u
LogEvent(u, type) ==
  /\ store.seq < MaxEvents
  /\ u \in StoredIds(store)
  /\ store' = insertEvent(store, u, type)
  /\ logCalls' = [logCalls EXCEPT ![u] = Append(@, type)]
  /\ UNCHANGED << lastGet, nonStoreVars >>

\* DELETE /agents/:name, as far as the trace store goes
RemoveRunsOf(a) ==
  /\ \E row \in store.runs : row.agent_name = a
  /\ store' = removeRunsOf(store, a)
  /\ logCalls' = [u \in RunUuids |->
                    IF u \in StoredIds(store') THEN logCalls[u] ELSE << >>]
  /\ UNCHANGED << lastGet, nonStoreVars >>

\* GET /runs/:id
GetRun(q) ==
  /\ lastGet' = [q |-> q, result |-> getRun(store, q)]
  /\ UNCHANGED << store, logCalls, nonStoreVars >>

NextStore ==
  \/ \E u \in RunUuids, a \in AgentNames : CreateRun(u, a)
  \/ \E u \in RunUuids, t \in EventTypes : LogEvent(u, t)
  \/ \E a \in AgentNames : RemoveRunsOf(a)
  \/ \E q \in Queries : GetRun(q)

InitStore ==
  /\ Boot
  /\ apiKey = FALSE
  /\ registry = << >>
  /\ build = "src"
  /\ turnsLeft = 0
  /\ faultsLeft = 0
  /\ cap = [runs |-> 0, calmAt |-> 0]

SpecStore == InitStore /\ [][NextStore]_vars

(***************************************************************************)
(* A tool name goes to a provider in the tool list of a request and comes  *)
(* back in a tool call of the response.                                    *)
(***************************************************************************)
\* the tool list of a request names tool n in provider form
\* (toAnthropicTools, convertToolsToOllamaFormat)
AdvertiseTool(provider, n) ==
  /\ naming' = [provider |-> provider, name |-> n,
                wire |-> IF provider = "anthropic" THEN toAnthropicName(n)
                         ELSE toOllamaToolName(n),
                back |-> << >>, at |-> "sent"]
  /\ UNCHANGED << baseVars, storeVars >>

\* the response asks for the tool under its provider-form name, which the
\* loop translates back before callTool
ToolCallArrives ==
  /\ naming.at = "sent"
  /\ naming' = [naming EXCEPT
                  !.back = IF naming.provider = "anthropic"
                           THEN fromAnthropicName(naming.wire)
                           ELSE fromOllamaToolName(naming.wire),
                  !.at = "back"]
  /\ UNCHANGED << baseVars, storeVars >>

NextNames ==
  \/ \E p \in {"anthropic", "ollama"}, n \in ToolNames : AdvertiseTool(p, n)
  \/ ToolCallArrives

SpecNames == InitStore /\ [][NextNames]_vars

(***************************************************************************)
(* Properties.                                                             *)
(***************************************************************************)
Terminal(r) == HasRow(r) /\ runs[r].status \in {"completed", "error"}

\* C1: for every run handed to runAgent, completeRun and failRun are called
\* at most once in total, and a status that has left `running` never changes
\* again.
C1_OneTerminalWrite ==
  /\ [](\A r \in RunIds : termWrites[r] <= 1)
  /\ [][\A r \in RunIds :
          (HasRow(r) /\ runs[r].status # "running" /\ runs'[r] # NoRow)
            => runs'[r].status = runs[r].status]_vars

\* a run that failed on a provider error after its single terminal write
C1_Witness ==
  \E r \in RunIds :
    /\ termWrites[r] = 1 /\ HasRow(r) /\ runs[r].status = "error"
    /\ provCalls[r] > 0 /\ tasks[r].pc = "rejected"

\* C2: once runAgent has been invoked on a run and has returned or raised,
\* the run is `completed` or `error`; it is not left `running`.
C2_SettledIsTerminal ==
  \A r \in RunIds : (IsSettled(tasks[r]) /\ HasRow(r)) => Terminal(r)

Last(s) == s[Len(s)]
OfType(ev, types) == SelectSeq(ev, LAMBDA e : e.type \in types)
\* the failures the retry policy is stated for: rate limit and server side
Transient(status) == status \in {429, 500, 502, 503, 529}
Fatal(status) == status # 200 /\ ~Transient(status)

\* C5: when callTool raises, the call has been counted, exactly one
\* `tool_call` event with is_error = true is logged for it, an error result
\* goes into the conversation, and the loop goes on to the next requested
\* call or the next provider turn; the run is not failed.
C5_ToolFailureDoesNotAbort ==
  [][\A r \in RunIds :
       (HasRow(r) /\ toolLog'[r] = Append(toolLog[r], "raise")) =>
         /\ tasks[r].toolCalls = Len(toolLog'[r])
         /\ tasks'[r].toolCalls >= tasks[r].toolCalls
         /\ events'[r] = Append(events[r], ToolCallEv(tasks[r].args, TRUE, "raise"))
         /\ IF tasks[r].provider = "anthropic"
            THEN \/ tasks'[r].results = Append(tasks[r].results, TRUE)
                 \/ tasks'[r].msgs =
                      Append(tasks[r].msgs, Msg("user", Append(tasks[r].results, TRUE)))
            ELSE tasks'[r].msgs = Append(tasks[r].msgs, ToolMsg(tasks[r].call.id, TRUE))
         /\ \/ tasks'[r].pc \in {"awaitTool", "awaitLLM"}
            \/ tasks'[r].pc = "resolved" /\ tasks'[r].i = MAX_ITERATIONS
         /\ runs'[r].status # "error"
         /\ termWrites'[r] = (IF tasks'[r].pc = "resolved" THEN 1 ELSE 0)]_vars

\* a Provider B run asks its provider again after a tool call that raised
C5_Witness ==
  \E r \in RunIds :
    /\ HasRow(r) /\ tasks[r].provider = "ollama" /\ tasks[r].pc = "awaitLLM"
    /\ tasks[r].i >= 1
    /\ \E k \in DOMAIN toolLog[r] : toolLog[r][k] = "raise"
    /\ \E k \in DOMAIN events[r] :
         events[r][k].type = "tool_call" /\ events[r][k].is_error

\* C6: a loop never gets more than 20 provider responses; a run whose
\* provider kept it going through all 20 iterations ends with completeRun,
\* status `completed` and the iteration-limit sentinel as output, never with
\* failRun.
C6_CeilingCompletes ==
  \A r \in RunIds :
    /\ tasks[r].i <= MAX_ITERATIONS
    /\ Len(OfType(events[r], {"llm_call"})) <= 20
    /\ (HasRow(r) /\ tasks[r].i = MAX_ITERATIONS) =>
         /\ tasks[r].pc = "resolved"
         /\ runs[r].status = "completed"
         /\ runs[r].output = <<SENTINEL>>
         /\ termWrites[r] = 1
         /\ Len(OfType(events[r], {"llm_call"})) = 20
         /\ OfType(events[r], {"error"}) = << >>

\* twenty turns of tool calls, then the sentinel
C6_Witness ==
  \E r \in RunIds :
    /\ HasRow(r) /\ tasks[r].i = MAX_ITERATIONS
    /\ runs[r].status = "completed" /\ runs[r].output = <<SENTINEL>>
    /\ runs[r].tool_calls >= 20

\* number of failures in a row that end at position k of a provider log
RECURSIVE FailuresUpTo(_, _)
FailuresUpTo(log, k) ==
  IF k = 0 \/ log[k] = 200 THEN 0 ELSE 1 + FailuresUpTo(log, k - 1)

\* position of the last answer in a provider log, 0 if there is none
RECURSIVE LastAnswer(_, _)
LastAnswer(log, k) ==
  IF k = 0 \/ log[k] = 200 THEN k ELSE LastAnswer(log, k - 1)

\* the `retry` and `llm_call` events of a run, in order
Trace(r) == OfType(events[r], {"retry", "llm_call"})

\* C7: every request that failed k times and was then answered has exactly
\* k `retry` events, numbered 1..k, right before its `llm_call` event (k <= 3,
\* the failures transient), and these failures have not failed the run.
C7_RetriesThenAnswer ==
  \A r \in RunIds :
    HasRow(r) =>
      LET log == envLog[r]
          n == LastAnswer(log, Len(log))
      IN /\ Len(Trace(r)) >= n
         /\ Len(OfType(events[r], {"llm_call"})) =
              Cardinality({k \in 1..n : log[k] = 200})
         /\ \A k \in 1..n :
              IF log[k] = 200
              THEN Trace(r)[k].type = "llm_call"
              ELSE /\ Trace(r)[k].type = "retry"
                   /\ Trace(r)[k].attempt = FailuresUpTo(log, k)
                   /\ FailuresUpTo(log, k) <= MAX_RETRIES
                   /\ Transient(log[k])
         /\ (n > 0 /\ n = Len(log)) => runs[r].status # "error"

\* rate-limited twice, then a final answer: two retries, one llm_call
C7_Witness ==
  \E r \in RunIds :
    /\ HasRow(r) /\ envLog[r] = <<429, 429, 200>>
    /\ runs[r].status = "completed"
    /\ Len(events[r]) = 3
    /\ events[r][1].type = "retry" /\ events[r][2].type = "retry"
    /\ events[r][3].type = "llm_call"

\* the events of a run after its last `llm_call`
RECURSIVE SinceLastCall(_)
SinceLastCall(ev) ==
  IF ev = << >> \/ Last(ev).type = "llm_call" THEN << >>
  ELSE Append(SinceLastCall(SubSeq(ev, 1, Len(ev) - 1)), Last(ev))

\* C8: no request gets more than 3 `retry` events; when a request has failed
\* transiently on its first try and on all 3 retries, the last error is
\* raised as it is, no `llm_call` is logged for the request and the run ends
\* with failRun, status `error`.
C8_RetryBudget ==
  \A r \in RunIds :
    HasRow(r) =>
      LET log == envLog[r]
          m == Len(log)
          rest == OfType(SinceLastCall(events[r]), {"retry", "error"})
      IN /\ Len(OfType(rest, {"retry"})) <= 3
         /\ (m > MAX_RETRIES /\ \A j \in (m - MAX_RETRIES)..m : Transient(log[j])) =>
              /\ tasks[r].pc = "rejected"
              /\ runs[r].status = "error"
              /\ runs[r].error = ProviderMsg(log[m])
              /\ termWrites[r] = 1
              /\ Len(rest) = MAX_RETRIES + 1
              /\ \A j \in 1..MAX_RETRIES : rest[j].type = "retry" /\ rest[j].attempt = j
              /\ rest[MAX_RETRIES + 1] = Ev("error", TRUE, 0, ProviderMsg(log[m]))
              /\ provCalls[r] = m

\* four transient failures in a row have used up the budget
C8_Witness ==
  \E r \in RunIds :
    /\ HasRow(r) /\ Len(envLog[r]) = 4
    /\ \A j \in 1..4 : Transient(envLog[r][j])
    /\ runs[r].status = "error"
    /\ Len(OfType(events[r], {"retry"})) = 3

\* C9: a provider failure that is not transient fails the run at once: the
\* step logs the `error` event and no `retry` event, failRun sets status
\* `error`, and the provider is not called again for that run.
C9_FatalFailsAtOnce ==
  [][\A r \in RunIds :
       /\ (HasRow(r) /\ Len(envLog'[r]) = Len(envLog[r]) + 1 /\ Fatal(Last(envLog'[r]))) =>
            /\ Len(events'[r]) = Len(events[r]) + 1
            /\ SubSeq(events'[r], 1, Len(events[r])) = events[r]
            /\ Last(events'[r]).type = "error"
            /\ tasks'[r].pc = "rejected"
            /\ runs'[r].status = "error"
            /\ termWrites'[r] = 1
            /\ provCalls'[r] = provCalls[r]
            /\ (FailuresUpTo(envLog'[r], Len(envLog'[r])) = 1
                  => OfType(SinceLastCall(events'[r]), {"retry"}) = << >>)
       /\ IsSettled(tasks[r]) => provCalls'[r] = provCalls[r]]_vars

\* a bad request (400) on the first try of Provider A
C9_Witness ==
  \E r \in RunIds :
    /\ HasRow(r) /\ tasks[r].provider = "anthropic" /\ envLog[r] = <<400>>
    /\ runs[r].status = "error" /\ provCalls[r] = 1
    /\ Len(events[r]) = 1

\* C10: Provider B retries a transient failure as Provider A does: after a
\* 429 or a 5xx answer within the budget a `retry` event is logged and the
\* run is still `running`.
C10_OllamaRetries ==
  \A r \in RunIds :
    (/\ HasRow(r) /\ tasks[r].provider = "ollama" /\ envLog[r] # << >>
     /\ Transient(Last(envLog[r]))
     /\ FailuresUpTo(envLog[r], Len(envLog[r])) <= MAX_RETRIES) =>
       /\ events[r] # << >>
       /\ Last(events[r]).type = "retry"
       /\ runs[r].status = "running"

\* the runAgent task of run r is inside its provider loop
InLoop(t) == t.pc \in {"awaitLLM", "awaitTool", "retryDelay"}

\* C11: when an exception escapes the loop of run r, the step that rejects
\* runAgent logs exactly one `error` event for the run, calls failRun once with
\* the same message, and rejects.
C11_OuterGuardHandlesOnce ==
  [][\A r \in RunIds :
       (InLoop(tasks[r]) /\ tasks'[r].pc = "rejected") =>
         /\ Len(events'[r]) = Len(events[r]) + 1
         /\ SubSeq(events'[r], 1, Len(events[r])) = events[r]
         /\ Last(events'[r]).type = "error"
         /\ termWrites'[r] = termWrites[r] + 1
         /\ HasRow(r) /\ runs'[r].status = "error"
         /\ runs'[r].error = Last(events'[r]).info]_vars

\* C12: a run started for an agent whose model matches no provider is rejected
\* at once with no provider request and no `llm_call` or `retry` event, and its
\* row ends in status `error`.
C12_UnknownModelFails ==
  [][\A r \in RunIds :
       (/\ tasks[r].pc \in {"none", "scheduled"}
        /\ tasks'[r].pc \notin {"none", "scheduled"}
        /\ agents[tasks'[r].agent] # NoAgent
        /\ parseModelProvider(agents[tasks'[r].agent].model).threw) =>
         /\ tasks'[r].pc = "rejected"
         /\ provCalls'[r] = 0
         /\ OfType(events'[r], {"llm_call", "retry"}) = << >>
         /\ runs'[r].status = "error"]_vars

\* C13: callTool on a name it cannot resolve dispatches to nothing and leaves
\* the registry as it is: without a "." the error is invalid-name; with a
\* server prefix that is not registered it is server-not-found, naming the
\* registered servers or `none`; with a tool its server does not have it is
\* tool-not-found.
C13_UnresolvedNeverDispatched ==
  [][lastCall' # lastCall =>
       LET n == lastCall'.tool
           dot == indexOf(n, ".")
           prefix == slice(n, 0, dot)
           tool == slice(n, dot + 1, Len(n))
           known == {registry[k].name : k \in 1..Len(registry)}
           entries == {registry[k] : k \in 1..Len(registry)}
       IN /\ registry' = registry
          /\ dot = -1 =>
               lastCall'.error = "invalid-name" /\ lastCall'.target = NoTarget
          /\ (dot # -1 /\ prefix \notin known) =>
               /\ lastCall'.error = "server-not-found"
               /\ lastCall'.target = NoTarget
               /\ IF registry = << >> THEN lastCall'.available = << <<"none">> >>
                  ELSE {lastCall'.available[k] : k \in 1..Len(lastCall'.available)}
                         = known
          /\ (dot # -1 /\ \E e \in entries : e.name = prefix /\ tool \notin e.tools) =>
               lastCall'.error = "tool-not-found" /\ lastCall'.target = NoTarget]_vars

\* a call of a tool that a registered server does not have, and one of a
\* server that is not there while others are
C13_Witness ==
  /\ lastCall.error = "server-not-found"
  /\ lastCall.available # << <<"none">> >>
  /\ \E k \in 1..Len(registry) : registry[k].client # NoClient

\* C14: registerServer without `replace` on a registered name returns the
\* entry's tools and changes neither the registry nor any adapter: nothing is
\* connected and nothing is disconnected.
C14_SkipLeavesEntry ==
  [][\A o \in OpIds :
       (/\ regOps[o].kind = "none" /\ regOps'[o].kind = "register"
        /\ ~regOps'[o].replace
        /\ serversGet(registry, regOps'[o].name) # NoEntry) =>
         /\ regOps'[o].pc = "resolved"
         /\ regOps'[o].result = serversGet(registry, regOps'[o].name).tools
         /\ registry' = registry
         /\ adapters' = adapters]_vars

\* a second registration of a subprocess server was skipped: it returned the
\* tools of the entry, which still has its connected adapter
C14_Witness ==
  \E o \in OpIds :
    /\ regOps[o].kind = "register" /\ ~regOps[o].replace
    /\ regOps[o].pc = "resolved" /\ regOps[o].client = NoClient
    /\ LET e == serversGet(registry, regOps[o].name)
       IN /\ e # NoEntry /\ e.client # NoClient
          /\ adapters[e.client].state = "connected"
          /\ adapters[e.client].disc = "none"
          /\ regOps[o].result = e.tools

\* the step in which operation o enters registerServer with `replace` for a
\* name that has an entry
ReplaceStarts(o) ==
  /\ regOps[o].kind = "none" /\ regOps'[o].kind = "register"
  /\ regOps'[o].replace
  /\ serversGet(registry, regOps'[o].name) # NoEntry

\* C15: registerServer with `replace` on a registered name disconnects the old
\* adapter before it connects a new one, goes on whatever the disconnect did
\* and whatever kind of entry the old one is, and when it succeeds the name
\* resolves only to the new adapter and the tools it has just listed.
C15_ReplaceDisconnectsThenConnects ==
  [][\A o \in OpIds :
       /\ ReplaceStarts(o) =>
            LET old == serversGet(registry, regOps'[o].name)
            IN /\ regOps'[o].pc # "rejected"
               /\ old.client # NoClient =>
                    /\ adapters'[old.client].disc = "pending"
                    /\ regOps'[o].pc = "awaitOld"
                    /\ regOps'[o].client = NoClient
               /\ old.client = NoClient => regOps'[o].pc = "awaitConnect"
       /\ (regOps[o].pc = "awaitOld" /\ regOps'[o] # regOps[o]) =>
            /\ regOps'[o].pc = "awaitConnect"
            /\ \A a \in regOps[o].pending : adapters'[a].disc = "resolved"
            /\ adapters[regOps'[o].client].state = "unused"
       /\ (regOps[o].kind = "register" /\ regOps[o].replace
             /\ regOps[o].pc = "awaitList" /\ regOps'[o].pc = "resolved") =>
            /\ Cardinality({k \in 1..Len(registry') :
                              registry'[k].name = regOps[o].name}) = 1
            /\ serversGet(registry', regOps[o].name).client = regOps[o].client
            /\ serversGet(registry', regOps[o].name).tools = regOps'[o].result]_vars

\* the entries of reg that getServerForTool could resolve the name n to
Resolutions(reg, n) ==
  LET dot == indexOf(n, ".")
  IN {k \in 1..Len(reg) :
        /\ dot # -1
        /\ reg[k].name = slice(n, 0, dot)
        /\ slice(n, dot + 1, Len(n)) \in reg[k].tools}

\* the namespaced names of the tools in reg, as registerServer builds them
Namespaced(reg) ==
  UNION {{reg[k].name \o <<".">> \o t : t \in reg[k].tools} : k \in 1..Len(reg)}

\* C16: in every state the registry reaches under any interleaving of
\* registrations, local registrations, disconnectAll and calls, a server name
\* has at most one entry and a namespaced tool name resolves to at most one
\* entry (one adapter or one handler).
C16_OneEntryPerName ==
  /\ \A j, k \in 1..Len(registry) :
       registry[j].name = registry[k].name => j = k
  /\ \A n \in CallNames \cup Namespaced(registry) :
       Cardinality(Resolutions(registry, n)) <= 1

\* a registration has been replaced: the adapter of the first one was
\* disconnected, the name has the entry of the replacement, and another server
\* is registered beside it
C16_Witness ==
  /\ Len(registry) = 2
  /\ \E o, q \in OpIds :
       /\ regOps[o].kind = "register" /\ regOps[o].replace
       /\ regOps[o].pc = "resolved"
       /\ serversGet(registry, regOps[o].name) # NoEntry
       /\ serversGet(registry, regOps[o].name).client = regOps[o].client
       /\ Cardinality(Resolutions(registry,
                                  regOps[o].name \o <<".", "read">>)) = 1
       /\ regOps[q].kind = "register" /\ regOps[q].name = regOps[o].name
       /\ regOps[q].client \in AdapterIds \ {regOps[o].client}
       /\ adapters[regOps[q].client].state = "connected"
       /\ adapters[regOps[q].client].disc = "resolved"

\* C17: disconnectAll does not raise whatever the registry holds (entries with
\* an adapter, in-process entries without one): it starts the disconnect of
\* every adapter in the same step, waiting for none, and leaves the registry
\* empty; called again on the empty registry it does nothing and does not
\* raise.
C17_DisconnectAllNeverRaises ==
  [][\A o \in OpIds :
       (regOps[o].kind = "none" /\ regOps'[o].kind = "disconnectAll") =>
         /\ regOps'[o].pc # "rejected"
         /\ registry' = << >>
         /\ \A a \in AllClients(registry) : adapters'[a].disc = "pending"
         /\ regOps'[o].pending = AllClients(registry)
         /\ registry = << >> =>
              adapters' = adapters /\ regOps'[o].pc = "resolved"]_vars

\* the race in disconnect() settles: close() completes or raises, or the 5 s
\* timer fires
DisconnectFair ==
  WF_vars(\E o \in OpIds, a \in AdapterIds,
             how \in {"closed", "raised", "timeout"} :
               disconnectSettles(o, a, how))

SpecRegFair == SpecReg /\ DisconnectFair

\* C18: an adapter's disconnect() never rejects: whether close() completes,
\* raises or never completes (the 5 s timer ends the wait), every disconnect
\* that settles has resolved; so a disconnectAll that has started is followed
\* by the end of the daemon's shutdown.
C18_DisconnectAlwaysResolves ==
  /\ [][\A a \in AdapterIds :
          (adapters[a].disc = "pending" /\ adapters'[a].disc # "pending") =>
            adapters'[a].disc = "resolved"]_vars
  /\ [](\A a \in AdapterIds : adapters[a].disc # "rejected")
  /\ ((\E o \in OpIds : regOps[o].kind = "disconnectAll") ~> ~daemonUp)

\* shutdown has finished after waiting for the disconnect of a connected
\* adapter
C18_Witness ==
  /\ ~daemonUp
  /\ \E a \in AdapterIds :
       adapters[a].state = "connected" /\ adapters[a].disc = "resolved"
  /\ \E o \in OpIds :
       /\ regOps[o].kind = "disconnectAll" /\ regOps[o].pc = "resolved"
       /\ regOps[o].pending = {}

\* a name the blocklist covers: one of the exact names, or a name that ends
\* in one of the suffixes whatever its case
Blocked(n) ==
  \/ n \in BLOCKED_ENV_EXACT
  \/ \E sfx \in BLOCKED_ENV_SUFFIXES : endsWith(toUpperCase(n), sfx)

\* C19: the environment createMcpClient hands to a spawned tool process (the
\* filtered process environment merged with the env of the server's config)
\* holds no blocked variable: no name of the exact blocklist and no name that
\* ends, in any case, in _TOKEN, _SECRET, _PASSWORD or _API_KEY.
C19_ChildEnvHasNoBlockedVariable ==
  \A a \in AdapterIds :
    adapters[a].state # "unused" => \A n \in adapters[a].env : ~Blocked(n)

\* the earliest instant after `now` that one of the cron entries of
\* `triggers` matches; << >> if there is no cron entry
EarliestFuture(triggers, now) ==
  LET crons == {triggers[k] : k \in 1..Len(triggers)} \cap {CronE1, CronE2}
      future == {t \in (now + 1)..(now + 3) :
                   \E e \in crons : t % Period(e[2]) = 0}
  IN IF crons = {} THEN << >>
     ELSE << CHOOSE t \in future : \A u \in future : t <= u >>

\* C20: in every state (after scheduleAgent, when a timer fires, while a run
\* started by a timer is in flight, after it has ended) the next_run stored for
\* an agent is the earliest future fire instant over its cron triggers, or
\* null without a cron trigger; it is never an instant that has passed.
C20_NextRunIsEarliestFuture ==
  \A a \in AgentNames :
    agents[a] # NoAgent =>
      agents[a].next_run = EarliestFuture(agents[a].triggers, clock)

\* the running tasks of agent a
TimersOf(tm, a) == {i \in TimerIds : tm[i] # NoTimer /\ tm[i].agent = a}

\* the positions of the cron entries in a trigger list
CronAt(triggers) ==
  {k \in 1..Len(triggers) : triggers[k] \in {CronE1, CronE2}}

\* what a call scheduleAgent(a, tr) at instant `now` has to leave behind,
\* `before` being the running tasks it was called with
Scheduled(after, before, a, tr, now) ==
  /\ Cardinality(TimersOf(after.timers, a)) = Cardinality(CronAt(tr))
  /\ TimersOf(after.timers, a)
       = {after.scheduled[a][k] : k \in 1..Len(after.scheduled[a])}
  /\ \A k \in CronAt(tr) :
       \E i \in TimersOf(after.timers, a) : after.timers[i].expr = tr[k][2]
  /\ \A i \in TimersOf(after.timers, a) :
       after.timers[i].triggers = tr /\ after.timers[i].last = now
  /\ CronAt(tr) = {} =>
       TimersOf(after.timers, a) = {} /\ after.agents[a].next_run = << >>
  /\ \A b \in SchedAgents \ {a} :
       TimersOf(after.timers, b) = TimersOf(before, b)

\* C21: scheduleAgent is idempotent. In whatever state it is called, after
\* earlier calls or not, scheduleAgent(a, tr) leaves as running tasks of a
\* exactly one per cron entry of tr, all created by this call, and they are
\* the tasks the map holds for a; no task of an earlier call is left running
\* and no other agent's task is touched. Without a cron entry in tr the agent
\* has no task and its next_run is null.
C21_ScheduleAgentIdempotent ==
  \A a \in SchedAgents, tr \in SchedTriggerLists :
    (/\ agents[a] # NoAgent
     /\ HasFree(unscheduleAgent(Sched, a).timers, Cardinality(CronAt(tr)))) =>
      \A after \in {scheduleAgent(Sched, a, tr, clock)} :
        Scheduled(after, timers, a, tr, clock)

\* scheduleAgent was called again with other triggers than the agent was
\* created with: one agent lost its tasks to a call without cron entries,
\* the other has the two tasks of its latest call
C21_Witness ==
  \E a, b \in SchedAgents :
    /\ agents[a] # NoAgent /\ CronAt(agents[a].triggers) # {}
    /\ TimersOf(timers, a) = {} /\ agents[a].next_run = << >>
    /\ agents[b] # NoAgent /\ Cardinality(CronAt(agents[b].triggers)) = 1
    /\ Cardinality(TimersOf(timers, b)) = 2
    /\ \A i \in TimersOf(timers, b) : timers[i].triggers # agents[b].triggers

\* the callback of the fired task `call` went on to createRun in this step
CallbackRuns(call) ==
  \E j \in 1..Len(cronCalls) :
    cronCalls[j] = call /\ cronCalls' = Without(cronCalls, j)

\* this step created exactly one run, for the agent of `call`, and runAgent
\* was invoked on it with the scheduled-run context
OneScheduledRun(call) ==
  /\ nextId' = nextId + 1
  /\ runs[nextId'] = NoRow
  /\ tasks[nextId'] = NoTask
  /\ tasks'[nextId'].caller = "cron"
  /\ tasks'[nextId'].agent = call.agent
  /\ tasks'[nextId'].context = ScheduledContext(call.expr)
  /\ tasks'[nextId'].pc \in {"awaitLLM", "resolved", "rejected"}
  /\ tasks'[nextId'].pc = "awaitLLM" =>
        /\ runs'[nextId'] = NewRow(call.agent)
        /\ tasks'[nextId'].msgs = <<Msg("user", ScheduledContext(call.expr))>>
  /\ \A r \in RunIds \ {nextId'} : runs'[r] = runs[r] /\ tasks'[r].pc = tasks[r].pc

\* the promise of scheduled run r settled in this step
ScheduledRunEnds(r) ==
  /\ tasks'[r].caller = "cron"
  /\ ~IsSettled(tasks[r])
  /\ IsSettled(tasks'[r])

Unscheduled(after, before, a) ==
  /\ TimersOf(after.timers, a) = {}
  /\ after.scheduled[a] = << >>
  /\ before.agents[a] # NoAgent =>
       after.agents[a] = [before.agents[a] EXCEPT !.next_run = << >>]
  /\ before.agents[a] = NoAgent => after.agents[a] = NoAgent
  /\ \A b \in SchedAgents \ {a} :
       /\ after.agents[b] = before.agents[b]
       /\ after.scheduled[b] = before.scheduled[b]
       /\ \A i \in TimersOf(before.timers, b) : after.timers[i] = before.timers[i]
  /\ TimersOf(before.timers, a) = {} => after.timers = before.timers

\* a task of agent a fired in this step
Fires(a) ==
  /\ Len(cronCalls') = Len(cronCalls) + 1
  /\ cronCalls'[Len(cronCalls')].agent = a

\* this step is a call of scheduleAgent for agent a
Reschedules(a) ==
  \E tr \in SchedTriggerLists :
    \E st \in {scheduleAgent(Sched, a, tr, clock)} :
      timers' = st.timers /\ scheduled' = st.scheduled

\* C23: unscheduleAgent(a), in whatever state it is called, leaves no running
\* task of a and no map entry, sets a's next_run to null, and touches no task
\* and no row of another agent; called for an agent without tasks it changes
\* no task at all. As long as the agent is unscheduled it stays without a task
\* until a step that is a call of scheduleAgent for it, and a task only fires
\* for an agent that has a map entry holding it, so no fire after
\* unscheduleAgent starts a run of the agent before scheduleAgent is called
\* again.
C23_UnscheduleStopsEveryTimer ==
  /\ [](\A a \in SchedAgents :
          \A after \in {unscheduleAgent(Sched, a)} : Unscheduled(after, Sched, a))
  /\ [][\A a \in SchedAgents :
          /\ Fires(a) =>
               \E k \in 1..Len(scheduled[a]) :
                 /\ timers[scheduled[a][k]] # NoTimer
                 /\ timers[scheduled[a][k]].agent = a
                 /\ cronCalls'[Len(cronCalls')] = timers[scheduled[a][k]]
          /\ (scheduled[a] = << >> /\ TimersOf(timers, a) = {}) =>
               \/ scheduled'[a] = << >> /\ TimersOf(timers', a) = {}
               \/ Reschedules(a)]_vars

\* agent a was removed, which unscheduled it while it had the running task 1,
\* and is now without any task; agent b still has its task 2 and its next_run,
\* and that task has fired and its run has completed
C23_Witness ==
  \E a, b \in SchedAgents :
    /\ a # b
    /\ agents[a] = NoAgent /\ TimersOf(timers, a) = {} /\ scheduled[a] = << >>
    /\ agents[b] # NoAgent /\ agents[b].next_run # << >>
    /\ scheduled[b] = <<2>> /\ TimersOf(timers, b) = {2}
    /\ timers[1] = NoTimer
    /\ \E r \in RunIds : tasks[r].caller = "cron" /\ tasks[r].agent = b
                          /\ tasks[r].pc = "resolved"
    /\ faultsLeft < ConcFaults
    /\ clock >= 4

\* the trigger lists of up to MaxTriggers entries
AnyTriggerLists ==
  UNION {[1..n -> {Manual, CronE1, CronE2}] : n \in 0..MaxTriggers}

\* C24: computeNextRun returns null exactly for a trigger list without a
\* `cron:` entry; otherwise it returns an instant that is at most the next
\* fire instant of every cron entry and equal to that of one of them.
C24_NextRunIsMinimum ==
  \A tr \in AnyTriggerLists :
    \A v \in {computeNextRun(tr, clock)} :
      /\ v = << >> <=> CronAt(tr) = {}
      /\ v # << >> =>
           /\ Len(v) = 1
           /\ \A k \in CronAt(tr) : v[1] <= nextFire(tr[k][2], clock)
           /\ \E k \in CronAt(tr) : v[1] = nextFire(tr[k][2], clock)

\* one agent was scheduled with two cron entries of which the second fires
\* first, and its next_run is that instant; the other agent has no cron entry
\* and a null next_run
C24_Witness ==
  \E a, b \in SchedAgents :
    /\ agents[a] # NoAgent /\ agents[a].triggers = <<CronE2, CronE1>>
    /\ nextFire("e1", clock) < nextFire("e2", clock)
    /\ agents[a].next_run = <<nextFire("e1", clock)>>
    /\ scheduled[a] # << >>
    /\ agents[b] # NoAgent /\ agents[b].triggers = <<Manual>>
    /\ agents[b].next_run = << >>

\* runAgent of run r took a step
Steps(r) == tasks'[r] # tasks[r]

IsPrefix(s, t) == Len(s) <= Len(t) /\ \A k \in 1..Len(s) : t[k] = s[k]

\* C25: runs of one agent that overlap are independent. Every run is created
\* under an id no other run has; a step of one run's runAgent appends its
\* events to that run's own trace and writes that run's own row, and leaves
\* the row, the trace and the progress of every other run as they are; and
\* each run whose runAgent has ended, and whose row is still stored, has had
\* exactly one terminal write and has a terminal status.
C25_OverlappingRunsIndependent ==
  /\ [](\A r \in RunIds :
          (IsSettled(tasks[r]) /\ HasRow(r)) => termWrites[r] = 1 /\ Terminal(r))
  /\ [][/\ nextId' # nextId =>
             /\ nextId' = nextId + 1
             /\ runs[nextId'] = NoRow /\ tasks[nextId'] = NoTask
             /\ events[nextId'] = << >>
        /\ \A r \in RunIds :
             Steps(r) =>
               /\ IsPrefix(events[r], events'[r])
               /\ \A q \in RunIds \ {r} :
                    /\ events'[q] = events[q]
                    /\ runs'[q] = runs[q]
                    /\ tasks'[q] = tasks[q]
                    /\ termWrites'[q] = termWrites[q]]_vars

StartsWith(str, q) == Len(q) <= Len(str) /\ SubSeq(str, 1, Len(q)) = q

\* C26: getRun(q) returns the stored run whose id is q; otherwise the run of
\* the only stored id that starts with q, the same record as for its full id;
\* null if no stored id starts with q; and an ambiguous-prefix error, and no
\* run, if two or more do.
C26_GetRunByPrefix ==
  \A q \in Queries :
    \A got \in {getRun(store, q)} :
      LET starting == {row \in store.runs : StartsWith(row.id, q)} IN
      IF \E row \in store.runs : row.id = q
      THEN got.kind = "run" /\ got.run.id = q
      ELSE /\ Cardinality(starting) = 1 =>
                \A row \in starting : got = getRun(store, row.id)
           /\ starting = {} => got.kind = "null"
           /\ Cardinality(starting) > 1 => got.kind = "ambiguous"

\* the types of a sequence of event rows
TypesOf(rows) == [k \in 1..Len(rows) |-> rows[k].type]

\* C27: the events of a run are append-only and ordered by insertion. For
\* every stored run, getRun returns its events in exactly the order of the
\* logEvent calls made for its id, whatever was logged for other runs in
\* between; and a logEvent call leaves every earlier event row as it was.
C27_EventsInInsertionOrder ==
  /\ [](\A u \in StoredIds(store) :
          \A got \in {getRun(store, u)} :
            /\ got.kind = "run"
            /\ got.run.id = u
            /\ TypesOf(got.events) = logCalls[u]
            /\ \A k \in 1..Len(got.events) : got.events[k].run_id = u)
  /\ [][store'.seq # store.seq =>
          /\ store.events \subseteq store'.events
          /\ Cardinality(store'.events) = Cardinality(store.events) + 1
          /\ \A u \in StoredIds(store) :
               IsPrefix(getRun(store, u).events, getRun(store', u).events)]_vars

\* two runs are stored; for the first an llm_call and then a tool_call were
\* logged, with an event of the second run logged in between, and getRun of
\* the first has returned just these two, in that order
C27_Witness ==
  \E u, w \in StoredIds(store) :
    /\ u # w
    /\ logCalls[u] = <<"llm_call", "tool_call">>
    /\ Len(logCalls[w]) = 1
    /\ lastGet.q = u
    /\ lastGet.result.kind = "run"
    /\ Len(lastGet.result.events) = 2
    /\ lastGet.result.events[1].id = 1
    /\ lastGet.result.events[1].type = "llm_call"
    /\ lastGet.result.events[2].id = 3
    /\ \E e \in store.events : e.id = 2 /\ e.run_id = w

Contains(str, sub) ==
  \E k \in 1..(Len(str) - Len(sub) + 1) : SubSeq(str, k, k + Len(sub) - 1) = sub

\* C28: a dot-namespaced tool name without `__` in it comes back from its
\* provider form as the name it was: fromAnthropicName(toAnthropicName(n)) = n
\* and fromOllamaToolName(toOllamaToolName(n)) = n.
C28_NameRoundTrip ==
  (/\ naming.at = "back"
   /\ Contains(naming.name, <<".">>)
   /\ ~Contains(naming.name, <<"_", "_">>)) =>
     /\ naming.back = naming.name
     /\ fromAnthropicName(toAnthropicName(naming.name)) = naming.name
     /\ fromOllamaToolName(toOllamaToolName(naming.name)) = naming.name

\* the final answers: the stop signals after which a loop stops asking
FinalStops == {"end_turn", "max_tokens", "stop", "length"}

\* the loop of run r got a final answer in this step and logged it
FinalAnswer(r) ==
  /\ HasRow(r)
  /\ Len(events'[r]) = Len(events[r]) + 1
  /\ Last(events'[r]).type = "llm_call"
  /\ Last(events'[r]).info \in FinalStops

\* C29: cost accounting never blocks completion. costForModel is 0 for every
\* model that has no price, whatever the token counts; and a run on such a
\* model, or on Provider B, that gets its final answer ends with completeRun
\* in that step, with cost 0 recorded, while a run on a priced model records
\* the price of its tokens.
C29_CostNeverBlocksCompletion ==
  /\ [](\A m \in (CostModels \cup ModelIds) \ PricedModels, u, v \in Usages :
          costForModel(m, u.tin + v.tin, u.tout + v.tout) = 0)
  /\ [][\A r \in RunIds :
          FinalAnswer(r) =>
            /\ tasks'[r].pc = "resolved"
            /\ termWrites'[r] = 1
            /\ runs'[r].status = "completed"
            /\ runs'[r].cost_usd =
                 IF tasks'[r].provider = "ollama" \/ tasks'[r].model \notin PricedModels
                 THEN 0
                 ELSE runs'[r].total_input_tokens * InputPrice
                        + runs'[r].total_output_tokens * OutputPrice]_vars

\* a Provider B run that reported tokens has completed at cost 0
C29_Witness ==
  \E r \in RunIds :
    /\ HasRow(r) /\ runs[r].status = "completed"
    /\ tasks[r].provider = "ollama"
    /\ runs[r].total_input_tokens > 0
    /\ runs[r].tool_calls > 0
    /\ runs[r].cost_usd = 0

RECURSIVE SumIn(_)
SumIn(ev) == IF ev = << >> THEN 0 ELSE Head(ev).input_tokens + SumIn(Tail(ev))

RECURSIVE SumOut(_)
SumOut(ev) == IF ev = << >> THEN 0 ELSE Head(ev).output_tokens + SumOut(Tail(ev))

\* the responses the provider gave to run r
Responses(r) == SelectSeq(envLog[r], LAMBDA x : x = 200)

\* C30: the row of a completed run agrees with its event trace. Its tool-call
\* count is the number of tool_call events of the run, its input and output
\* token totals are the sums over the run's llm_call events, and the run has
\* one llm_call event for each response its loop processed; each response
\* adds exactly one llm_call event in the step that processes it.
C30_RowMatchesTrace ==
  /\ [](\A r \in RunIds :
          (HasRow(r) /\ runs[r].status = "completed") =>
            /\ runs[r].tool_calls = Len(OfType(events[r], {"tool_call"}))
            /\ runs[r].total_input_tokens = SumIn(OfType(events[r], {"llm_call"}))
            /\ runs[r].total_output_tokens = SumOut(OfType(events[r], {"llm_call"}))
            /\ Len(OfType(events[r], {"llm_call"})) = Len(Responses(r)))
  /\ [][\A r \in RunIds :
          (HasRow(r) /\ envLog'[r] = Append(envLog[r], 200)) =>
            /\ Len(events'[r]) = Len(events[r]) + 1
            /\ IsPrefix(events[r], events'[r])
            /\ Last(events'[r]).type = "llm_call"]_vars

\* a completed run with two responses of different token counts, a retried
\* request, and a tool call that raised
C30_Witness ==
  \E r \in RunIds :
    /\ HasRow(r) /\ runs[r].status = "completed"
    /\ Len(OfType(events[r], {"llm_call"})) = 2
    /\ OfType(events[r], {"llm_call"})[1].input_tokens
         # OfType(events[r], {"llm_call"})[2].input_tokens
    /\ OfType(events[r], {"retry"}) # << >>
    /\ \E k \in 1..Len(events[r]) :
         events[r][k].type = "tool_call" /\ events[r][k].is_error
    /\ runs[r].tool_calls >= 1
    /\ runs[r].total_input_tokens = 3
    /\ runs[r].total_output_tokens = 3

\* the loop of run r has logged a final answer
GotFinalAnswer(r) ==
  \E k \in 1..Len(events[r]) :
    events[r][k].type = "llm_call" /\ events[r][k].info \in FinalStops

\* C31: a completed run's output is the iteration-limit sentinel only if its
\* loop ran all 20 iterations and never got a final answer; the step in which
\* a final answer arrives completes the run with that answer's text, empty or
\* not, followed by the truncation warning exactly when the answer was
\* truncated, and not with the sentinel.
C31_SentinelOnlyAtCeiling ==
  /\ [](\A r \in RunIds :
          (HasRow(r) /\ runs[r].status = "completed" /\ runs[r].output = <<SENTINEL>>)
            => (tasks[r].i = MAX_ITERATIONS /\ ~GotFinalAnswer(r)))
  /\ [][\A r \in RunIds :
          FinalAnswer(r) =>
            /\ runs'[r].status = "completed"
            /\ runs'[r].output = tasks'[r].output
            /\ runs'[r].output # <<SENTINEL>>
            /\ runs'[r].output \in
                 {FinalText(x, Last(events'[r]).info \in {"max_tokens", "length"}) :
                    x \in BOOLEAN}]_vars

\* the arguments string of a call is not valid JSON
Malformed(call) == JSONparse(call.arguments).threw

\* callTool settles for run r in this step
ToolSettles(r) == Len(toolLog'[r]) = Len(toolLog[r]) + 1

\* C32: in Provider B a requested tool call whose arguments string is not
\* valid JSON is still made, with an empty arguments object; when the call
\* settles exactly one tool_call event is logged for it, the result message is
\* appended under the call's id, and the loop goes on to the next requested
\* call or the next provider turn without failing the run.
C32_MalformedArgumentsBecomeEmpty ==
  /\ [](\A r \in RunIds :
          (tasks[r].provider = "ollama" /\ tasks[r].pc = "awaitTool"
             /\ Malformed(tasks[r].call)) => tasks[r].args = EmptyObject)
  /\ [][\A r \in RunIds :
          (HasRow(r) /\ tasks[r].provider = "ollama" /\ Steps(r)
             /\ tasks[r].calls # << >> /\ ~IsSettled(tasks'[r])) =>
            /\ tasks'[r].pc = "awaitTool"
            /\ tasks'[r].call = Head(tasks[r].calls)
            /\ tasks'[r].toolCalls = tasks[r].toolCalls + 1]_vars
  /\ [][\A r \in RunIds :
          (HasRow(r) /\ tasks[r].provider = "ollama" /\ ToolSettles(r)
             /\ Malformed(tasks[r].call)) =>
            /\ events'[r] =
                 Append(events[r],
                        ToolCallEv(EmptyObject, Last(toolLog'[r]) # "ok",
                                   Last(toolLog'[r])))
            /\ tasks'[r].msgs =
                 Append(tasks[r].msgs,
                        ToolMsg(tasks[r].call.id, Last(toolLog'[r]) = "raise"))
            /\ tasks'[r].pc \in {"awaitTool", "awaitLLM"}
            /\ runs'[r].status = "running"
            /\ termWrites'[r] = 0]_vars

\* a Provider B run is back at its provider after two calls of one response,
\* the first with arguments cut short, the second with text that is no JSON
C32_Witness ==
  \E r \in RunIds :
    /\ HasRow(r) /\ tasks[r].provider = "ollama" /\ tasks[r].pc = "awaitLLM"
    /\ tasks[r].i = 1 /\ runs[r].status = "running"
    /\ tasks[r].call = ToolCall(12, ShellExec, <<"k">>, EmptyObject)
    /\ Len(events[r]) = 3
    /\ events[r][2] = ToolCallEv(EmptyObject, FALSE, "ok")
    /\ events[r][3] = ToolCallEv(EmptyObject, TRUE, "raise")
    /\ Len(tasks[r].msgs) = 4
    /\ tasks[r].msgs[3] = ToolMsg(11, FALSE)
    /\ tasks[r].msgs[4] = ToolMsg(12, TRUE)

\* this step is a registerLocalServer call: the only operation that touches
\* the registry without an operation record or an adapter changing
LocalRegistration == regOps' = regOps /\ adapters' = adapters /\ lastCall' = lastCall

\* C33: registerLocalServer on a name that is already registered leaves the
\* existing entry, with its adapter, tools and source, as it was; an entry
\* whose subprocess adapter is connected is not dropped from the registry.
C33_LocalRegistrationKeepsEntry ==
  [][LocalRegistration =>
       \A n \in ServerNames :
         serversGet(registry, n) # NoEntry =>
           serversGet(registry', n) = serversGet(registry, n)]_vars

\* the callTool that run r awaits found its tool and handed the call to the
\* tool's handler or adapter
Dispatched(r) == tasks[r].pc = "awaitTool" /\ tasks[r].target.error = "none"

\* C34: every tool a run's callTool dispatches is in the set resolved from
\* the agent's tool references at the start of the run; a requested name
\* outside that set is not executed, so no tool call of the run settles as
\* executed for such a name.
C34_OnlyResolvedToolsRun ==
  /\ [](\A r \in RunIds : Dispatched(r) => tasks[r].target.tool \in tasks[r].resolved)
  /\ [][\A r \in RunIds :
          (ToolSettles(r) /\ Last(toolLog'[r]) \in {"ok", "isError"})
            => tasks[r].target.tool \in tasks[r].resolved]_vars

\* C35: the first terminal write is the one that counts. Once the row of a
\* run has status `completed` or `error`, no later step (a later completeRun
\* or failRun for the same run id included) changes its status, output,
\* error, token totals or duration.
C35_FirstTerminalWriteStands ==
  [][\A r \in RunIds :
       (Terminal(r) /\ runs'[r] # NoRow) =>
         /\ runs'[r].status = runs[r].status
         /\ runs'[r].output = runs[r].output
         /\ runs'[r].error = runs[r].error
         /\ runs'[r].total_input_tokens = runs[r].total_input_tokens
         /\ runs'[r].total_output_tokens = runs[r].total_output_tokens
         /\ runs'[r].duration_ms = runs[r].duration_ms]_vars

\* disconnect() has been invoked on adapter a
DisconnectInvoked(a) == adapters[a].disc # "none"

\* C36: no registry entry refers to an adapter on which disconnect has been
\* invoked, in any reachable state, and no callTool is dispatched to such an
\* adapter.
C36_NoEntryOnDisconnectedAdapter ==
  /\ [](\A k \in 1..Len(registry) :
          registry[k].client # NoClient => ~DisconnectInvoked(registry[k].client))
  /\ [][(lastCall' # lastCall /\ lastCall'.target.kind = "adapter")
          => ~DisconnectInvoked(lastCall'.target.id)]_vars

\* every registry operation that was started has run to completion
Quiescent == \A o \in OpIds : regOps[o].pc \in {"none", "resolved", "rejected"}

\* adapter a is connected and disconnect has not been invoked on it
Live(a) == adapters[a].state = "connected" /\ ~DisconnectInvoked(a)

\* C37: no adapter is orphaned. Whenever all registerServer, registerLocalServer
\* and disconnectAll calls made so far have run to completion, every adapter
\* that is connected and has not had disconnect invoked is the client of a
\* registry entry; so at most one live adapter exists per registered name.
C37_NoOrphanedAdapter ==
  (daemonUp /\ Quiescent) =>
    /\ \A a \in AdapterIds : Live(a) => a \in AllClients(registry)
    /\ Cardinality({a \in AdapterIds : Live(a)}) <= Len(registry)

\* the trigger list of the latest scheduleAgent(a, ...) that started tasks
ScheduledTriggers(tm, sch, a) == tm[sch[a][1]].triggers

\* C38: a cron-initiated run that ends after its agent was unscheduled, or
\* removed and registered again with other triggers, does not overwrite
\* next_run. While no task is scheduled for an agent its next_run is null,
\* and a step that writes next_run of an agent with scheduled tasks writes the
\* value computed from the trigger list those tasks were scheduled with.
C38_LateRunKeepsNextRun ==
  /\ [](\A a \in SchedAgents :
          (agents[a] # NoAgent /\ scheduled[a] = << >>) => agents[a].next_run = << >>)
  /\ [][\A a \in SchedAgents :
          (/\ agents'[a] # NoAgent
           /\ scheduled'[a] # << >>
           /\ agents[a] = NoAgent \/ agents'[a].next_run # agents[a].next_run) =>
            agents'[a].next_run =
              computeNextRun(ScheduledTriggers(timers', scheduled', a), clock')]_vars

\* an error event in a list of events is its last event
ErrorIsLast(log) ==
  \A k \in 1..Len(log) : log[k].type = "error" => k = Len(log)

\* C39: no event is appended to a run after its terminal write. Once
\* completeRun or failRun ran for a run, no step makes its event list longer;
\* every event the run has was there when the write was made (llm_call,
\* tool_call, retry and error events are all logged before it); and an error
\* event, when there is one, is the last event of the run.
C39_NoEventAfterTerminalWrite ==
  /\ [](\A r \in RunIds :
          /\ ErrorIsLast(events[r])
          /\ termWrites[r] > 0 =>
               /\ Len(events[r]) <= writeAt[r]
               /\ HasRow(r) => Len(events[r]) = writeAt[r])
  /\ [][\A r \in RunIds :
          termWrites[r] > 0 => Len(events'[r]) <= Len(events[r])]_vars

\* a run failed in the outer catch after logging other events: the error
\* event is its last, and all its events were there at the write
C39_Witness ==
  \E r \in RunIds :
    /\ HasRow(r)
    /\ runs[r].status = "error"
    /\ termWrites[r] = 1
    /\ Len(events[r]) >= 3
    /\ writeAt[r] = Len(events[r])
    /\ events[r][Len(events[r])].type = "error"
    /\ \E k \in 1..Len(events[r]) : events[r][k].type = "tool_call"
    /\ \E k \in 1..Len(events[r]) : events[r][k].type = "llm_call"

\* the row a terminal write of this step found: the stored row, or the row
\* createRun made in the same step
RowBefore(r) == IF HasRow(r) THEN runs[r] ELSE NewRow(runs'[r].agent_name)

\* the columns failRun does not name
Results(row) ==
  [output |-> row.output, total_input_tokens |-> row.total_input_tokens,
   total_output_tokens |-> row.total_output_tokens, cost_usd |-> row.cost_usd,
   tool_calls |-> row.tool_calls]

\* C40: failRun changes only status, completed_at, duration_ms and error, and
\* completeRun never sets error. A step whose terminal write leaves the row
\* in status error leaves output, token totals, cost and tool-call count as
\* they were, and one that leaves it completed leaves error as it was; so a
\* run that runAgent failed has the createRun defaults in those columns
\* whatever events it logged, and a completed run has no error message.
C40_FailRunLeavesResults ==
  /\ [][\A r \in RunIds :
          (termWrites'[r] = termWrites[r] + 1 /\ runs'[r] # NoRow) =>
            /\ runs'[r].status = "error" =>
                 /\ Results(runs'[r]) = Results(RowBefore(r))
                 /\ runs'[r].agent_name = RowBefore(r).agent_name
            /\ runs'[r].status = "completed" =>
                 runs'[r].error = RowBefore(r).error]_vars
  /\ [](\A r \in RunIds :
          HasRow(r) =>
            /\ runs[r].status = "error" =>
                 Results(runs[r]) = Results(NewRow(runs[r].agent_name))
            /\ runs[r].status = "completed" =>
                 runs[r].error = NewRow(runs[r].agent_name).error)

\* a run failed after llm_call and tool_call events that counted tokens and a
\* tool call: its row has none of them
C40_Witness ==
  \E r \in RunIds :
    /\ HasRow(r)
    /\ runs[r].status = "error"
    /\ runs[r].error # ""
    /\ tasks[r].totalInputTokens > 0
    /\ tasks[r].toolCalls > 0
    /\ \E k \in 1..Len(events[r]) : events[r][k].type = "llm_call"
    /\ \E k \in 1..Len(events[r]) : events[r][k].type = "tool_call"
    /\ Results(runs[r]) = Results(NewRow(runs[r].agent_name))

====
